---- MODULE Spec2Model ----
(***************************************************************************)
(* A model of two parts of the laptop testing program:                     *)
(*   - SystemTests (system_tests.py): the test workers that share the      *)
(*     is_testing flag, with the GUI thread starting and stopping them;    *)
(*   - the update system (update_manager.py): UpdateChecker,               *)
(*     UpdateDownloader and UpdateManager, with the reminder file and      *)
(*     application restarts.                                               *)
(* Each part has its own next-state relation; the variables of the other   *)
(* part are left unchanged by it.                                          *)
(***************************************************************************)
EXTENDS Integers, Sequences, FiniteSets, TLC

\* ------------------------------------------------------------------ bounds
\* test runs started in one behaviour
MaxRuns == 2
\* failed battery samples in one charging run
MaxFaults == 1
\* largest duration (s) / size (MB) a test is started with
MaxSize == 2
\* psutil.cpu_count(): stress threads of the cpu test
NumCores == 2
\* times the charger is plugged or unplugged during one behaviour
MaxToggles == 2
\* times the battery level moves during one behaviour
MaxMoves == 5
\* battery levels are 0..MaxLevel, counted in steps of 1/OnePercent percent
MaxLevel == 2
\* the values a byte of a memory block takes are 0..MaxByte
MaxByte == 1
\* tokens in the tag name of a release
MaxLen == 3
\* largest number in a version
MaxSeg == 2
\* update checks started in one session
MaxChecks == 2
\* times the application is started
MaxSessions == 2
\* chunks of one download
MaxChunks == 2
\* update_ui_signal emissions of progress updates that wait for the GUI thread
MaxQueued == 2
\* downloads started in one session
MaxDownloads == 2
\* processes of the application launched in one behaviour
MaxProcs == 3
\* frames (camera) or chunks (microphone) a capture worker reads in one run
MaxFrames == 2

\* ------------------------------------------------- constants of the program
\* battery.percent is a float: a level is counted in half percents, and the
\* "1% change threshold" is OnePercent of them
OnePercent == 2
monitor_duration == 60
check_interval == 2
checks_total == monitor_duration \div check_interval
cpu_sample_interval == 1
cpu_sleep == 1

Tests == {"cpu", "memory", "disk", "brightness", "charging"}
test_levels == <<20, 40, 60, 80, 100>>
total_steps == Len(test_levels) + 1
Terminal == {"Completed", "Stopped", "Error"}
GuiThread == "gui"
WorkerThread == "worker"
StressThread == "stress"

VARIABLES
    \* ---- SystemTests
    is_testing,         \* SystemTests.is_testing, shared by every worker
    pc,                 \* [Tests -> position of the test's worker thread]
    idx,                \* [Tests -> loop index of the worker (cpu: elapsed seconds)]
    size,               \* [Tests -> duration / test_size_mb / test_file_size_mb]
    status,             \* [Tests -> results['status'] of the current run]
    progress,           \* [Tests -> results['progress']]
    reported,           \* [Tests -> terminal statuses passed to the callback, in order]
    stress,             \* number of cpu stress threads running
    blocks,             \* memory test: memory_blocks, what was written, errors_found
    temp_file,          \* disk test: "none" | "exists" | "deleted"
    brightness,         \* [original, current, restored, changed] of the display
    charging,           \* the locals and results of charging_test_worker
    battery,            \* the environment: [power_plugged, percent]
    \* ---- history of the test runs
    stop_during,        \* [Tests -> stop_all_tests was called during the run]
    stop_before_read,   \* [Tests -> ... before the worker's last read of is_testing]
    early_return,       \* [Tests -> the run ended before its loop (no battery / no brightness support)]
    flag_writers,       \* the kinds of thread that have written is_testing
    results_writers,    \* [Tests -> threads that wrote the run's results dict after the worker started]
    runs, toggles, moves,
    \* ---- the update system
    current_version,    \* UpdateManager.current_version: the version of the running build
    releases,           \* the releases the GitHub API can answer with
    session,            \* the number of this start of the application
    startup,            \* the 2 s timer of check_startup_updates: "scheduled" | "done"
    quit,               \* QApplication.quit() was called
    show_no_update_message,
    update_checker,     \* [st, response]: the UpdateChecker thread and what it fetched
    queue,              \* signals emitted by the threads and not yet delivered to their slots
    dialogs,            \* the open modal dialogs, the topmost last
    status_label,       \* parent.status_label
    timer,              \* the update_info of the pending 3 s reminder timer, or NoInfo
    reminder_file,      \* update_reminder.json
    downloaders,        \* the UpdateDownloader threads of this session, each with its progress dialog
                        \* (depth: the message boxes that were open when it was shown)
    update_downloader,  \* index of self.update_downloader / self.progress_dialog (0: None)
    \* ---- history of the update system
    emitted,            \* the signals emitted by the current UpdateChecker run
    cause,              \* the path the current UpdateChecker run took
    checks,             \* update checks started in this session
    manual_unanswered,  \* a manual check was requested and no check dialog shown since
    found,              \* the update_info of every update_available emitted so far
    last_answer,        \* the last dialog answered and the button pressed
    reminded,           \* the update_info of the last 'Remind Later'
    completed,          \* paths for which download_completed was emitted
    installs,           \* paths for which an installation was started
    shell,              \* what this process started or extracted: <<call, path>>
    failed_before,      \* an earlier check of this session ended with error_occurred
    prompts,            \* the versions of the 'Update Available' prompts shown in this session
    cancelled,          \* the downloads whose progress dialog the user cancelled
    keyboard,           \* the latest run of KeyboardTest.run_test: its worker and results
    \* ---- the launches of the application (main)
    lock_file,          \* laptop_testing_program.lock: NoLock, a PID, or text that is no PID
    proc,               \* [PIDs -> position of the process in main]
    pid,                \* [PIDs -> the PID the process read from the lock file]
    exit_code,          \* [PIDs -> the code the process exited with, -1 while it has not]
    \* ---- the capture workers of the camera and microphone test windows
    worker,             \* [Workers -> [st, running, device, frames]]: the QThread and its fields
    tab,                \* the Tests tab: its progress bar and the queued update_ui_signal emissions
    stop_call           \* [Workers -> position of the GUI thread in stop(): "none" | "waiting" | "returned"]

testVars == <<is_testing, pc, idx, size, status, progress, reported, stress, blocks,
              temp_file, brightness, charging, battery, stop_during, stop_before_read,
              early_return, flag_writers, results_writers, runs, toggles,
              moves>>

updateVars == <<current_version, releases, session, startup, quit, show_no_update_message,
                update_checker, queue, dialogs, status_label, timer, reminder_file,
                downloaders, update_downloader, emitted, cause, checks,
                manual_unanswered, found, last_answer, reminded, completed, installs, shell,
                failed_before, prompts, cancelled>>

launchVars == <<lock_file, proc, pid, exit_code>>

\* the variables that neither the tests nor the update system touch
captureVars == <<worker, stop_call>>

keyboardVars == <<keyboard>>

\* no Tests tab: the tests are given a callback that only records
NoTab == [open |-> FALSE, visible |-> FALSE, ui |-> <<>>]

\* TestsTab.__init__: the progress bar is hidden
InitTab == [open |-> TRUE, visible |-> FALSE, ui |-> <<>>]

\* what the steps of the tests that tell the Tests tab leave alone
otherVars == <<launchVars, captureVars, keyboardVars>>

restVars == <<otherVars, tab>>

vars == <<testVars, updateVars, restVars>>

\* ------------------------------------------------------------ SystemTests

Running(t) == pc[t] \notin {"idle", "done"}

FinalStatus_AlwaysCompleted(flag) == "Completed"

\* 'Completed' if self.is_testing else 'Stopped'
FinalStatus(flag) == IF flag THEN "Completed" ELSE "Stopped"

\* min(int(elapsed / duration * 100), 100)
CpuProgress(elapsed, duration) ==
    IF (elapsed * 100) \div duration < 100 THEN (elapsed * 100) \div duration ELSE 100

\* int((i + 1) / n * 50) and int(50 + (i + 1) / n * 50)
HalfProgress(base, i, n) == base + ((i + 1) * 50) \div n

\* memory_blocks = []; 'errors_found': 0; written keeps what each block held
\* when it was allocated
NoBlocks == [memory_blocks |-> <<>>, written |-> <<>>, errors_found |-> 0]

\* int((i + 1) / total * 100)
StepProgress(i, total) == ((i + 1) * 100) \div total

InitCharging ==
    [ battery_support |-> FALSE,
      initial_charging_state |-> FALSE,
      initial_battery_level |-> 0,
      last_charging_state |-> FALSE,
      last_battery_level |-> 0,
      current_battery_level |-> 0,
      analysed |-> FALSE,     \* the four keys below exist in results
      charging_events_detected |-> 0,
      battery_level_changes_detected |-> 0,
      charging_port_status |-> "None",
      battery_charging_status |-> "None",
      charging_events |-> <<>>,
      battery_level_changes |-> <<>>,
      errors |-> 0,
      samples |-> 0,          \* battery samples taken in the loop
      slept |-> 0,            \* seconds slept in the loop
      prev_sample |-> FALSE,  \* power_plugged at the previous sample (or at detection)
      sample_failed |-> FALSE ]

InitTests(batteries) ==
    /\ battery \in batteries
    /\ is_testing = FALSE
    /\ pc = [t \in Tests |-> "idle"]
    /\ idx = [t \in Tests |-> 0]
    /\ size = [t \in Tests |-> 0]
    /\ status = [t \in Tests |-> "None"]
    /\ progress = [t \in Tests |-> 0]
    /\ reported = [t \in Tests |-> <<>>]
    /\ stress = 0
    /\ blocks = NoBlocks
    /\ temp_file = "none"
    /\ brightness = [original |-> 0, current |-> 50, restored |-> FALSE, changed |-> FALSE]
    /\ charging = InitCharging
    /\ stop_during = [t \in Tests |-> FALSE]
    /\ stop_before_read = [t \in Tests |-> FALSE]
    /\ early_return = [t \in Tests |-> FALSE]
    /\ flag_writers = {}
    /\ results_writers = [t \in Tests |-> {}]
    /\ runs = 0 /\ toggles = 0 /\ moves = 0

\* A finished run whose results dict nothing refers to any more: the GUI keeps
\* only the dict of the run started last (self.current_test_results = ...)
Dropped(t, u) == u # t /\ pc[u] = "done"

\* The part of every test method that runs in the calling (GUI) thread:
\* self.is_testing = True; results = {...}; thread.start().
\* solo: the user starts a test only when no other worker is running.
StartTest(t, n, first, solo) ==
    /\ runs < MaxRuns
    /\ ~Running(t)
    /\ solo => \A u \in Tests : ~Running(u)
    /\ runs' = runs + 1
    /\ tab' = [tab EXCEPT !.visible = tab.open]
    /\ is_testing' = TRUE
    /\ flag_writers' = flag_writers \cup {GuiThread}
    /\ pc' = [u \in Tests |-> IF u = t THEN first ELSE IF Dropped(t, u) THEN "idle" ELSE pc[u]]
    /\ idx' = [idx EXCEPT ![t] = 0]
    /\ size' = [size EXCEPT ![t] = n]
    /\ status' = [u \in Tests |-> IF u = t THEN "Running"
                                  ELSE IF Dropped(t, u) THEN "None" ELSE status[u]]
    /\ progress' = [u \in Tests |-> IF u = t \/ Dropped(t, u) THEN 0 ELSE progress[u]]
    /\ reported' = [u \in Tests |-> IF u = t \/ Dropped(t, u) THEN <<>> ELSE reported[u]]
    /\ stop_during' = [u \in Tests |-> IF u = t \/ Dropped(t, u) THEN FALSE ELSE stop_during[u]]
    /\ stop_before_read' =
           [u \in Tests |-> IF u = t \/ Dropped(t, u) THEN FALSE ELSE stop_before_read[u]]
    /\ early_return' = [u \in Tests |-> IF u = t \/ Dropped(t, u) THEN FALSE ELSE early_return[u]]
    /\ results_writers' = [u \in Tests |-> IF u = t \/ Dropped(t, u) THEN {} ELSE results_writers[u]]

\* The worker's write of a results key, by thread th
Wrote(t, th) == results_writers' = [results_writers EXCEPT ![t] = @ \cup {th}]

\* TestsTab.test_callback: completion and error pass, anything else only when
\* 0.3 s have elapsed since the last update that passed; update_ui_signal.emit
\* queues the results for the GUI thread
test_callback(tb, st, elapsed) ==
    IF tb.open /\ (st \in {"Completed", "Error"} \/ elapsed)
    THEN [tb EXCEPT !.ui = Append(@, st)]
    ELSE tb

\* callback(results) with a terminal status
Callback(t, st) ==
    /\ reported' = [reported EXCEPT ![t] = Append(@, st)]
    /\ \E elapsed \in BOOLEAN : tab' = test_callback(tab, st, elapsed)

FinalRead_KeepsProgress(t) ==
    /\ pc[t] = "final"
    /\ status' = [status EXCEPT ![t] = FinalStatus(is_testing)]
    /\ progress' = progress
    /\ pc' = [pc EXCEPT ![t] = "finish"]
    /\ Wrote(t, t)
    /\ UNCHANGED <<is_testing, idx, size, reported, stress, blocks, temp_file, brightness,
                   charging, battery, stop_during, stop_before_read, early_return,
                   flag_writers, runs,  toggles, moves, updateVars, restVars>>

\* results['status'] = 'Completed' if self.is_testing else 'Stopped' (with the
\* statements before it that touch only the results)
FinalRead(t) ==
    /\ pc[t] = "final"
    /\ status' = [status EXCEPT ![t] = FinalStatus(is_testing)]
    /\ progress' = [progress EXCEPT ![t] = 100]
    /\ pc' = [pc EXCEPT ![t] = "finish"]
    /\ Wrote(t, t)
    /\ UNCHANGED <<is_testing, idx, size, reported, stress, blocks, temp_file, brightness,
                   charging, battery, stop_during, stop_before_read, early_return,
                   flag_writers, runs,  toggles, moves, updateVars, restVars>>

\* the worker thread returns: its locals are gone
ThreadEnds(t) ==
    /\ idx' = [idx EXCEPT ![t] = 0]
    /\ size' = [size EXCEPT ![t] = 0]

\* self.is_testing = False; if callback: callback(results)
WorkerFinish(t) ==
    /\ pc[t] = "finish"
    /\ is_testing' = FALSE
    /\ flag_writers' = flag_writers \cup {WorkerThread}
    /\ Callback(t, status[t])
    /\ pc' = [pc EXCEPT ![t] = "done"]
    /\ ThreadEnds(t)
    /\ UNCHANGED <<status, progress, stress, blocks, temp_file, brightness,
                   charging, battery, stop_during, stop_before_read, early_return,
                   results_writers, runs,  toggles, moves, updateVars, otherVars>>

\* the final callback raises.  In the workers whose body is one try/except
\* (memory, disk, brightness, charging) the except branch then sets 'Error' and
\* calls the callback a second time; in monitor_worker (no try/except) the
\* thread ends with the exception
final_callback_raises(t) ==
    /\ pc[t] = "finish"
    /\ is_testing' = FALSE
    /\ flag_writers' = flag_writers \cup {WorkerThread}
    /\ IF t = "cpu"
         THEN /\ Callback(t, status[t])
              /\ UNCHANGED <<status, results_writers>>
         ELSE /\ reported' = [reported EXCEPT ![t] = Append(Append(@, status[t]), "Error")]
              /\ \E elapsed \in BOOLEAN :
                    tab' = test_callback(test_callback(tab, status[t], elapsed),
                                         "Error", TRUE)
              /\ status' = [status EXCEPT ![t] = "Error"]
              /\ Wrote(t, t)
    /\ pc' = [pc EXCEPT ![t] = "done"]
    /\ ThreadEnds(t)
    /\ UNCHANGED <<progress, stress, blocks, temp_file, brightness, charging, battery,
                   stop_during, stop_before_read, early_return, runs, toggles, moves,
                   updateVars, otherVars>>

\* except Exception as e: results['status'] = 'Error'; self.is_testing = False; callback
\* (the conjuncts every error exit shares; the caller leaves the rest unchanged)
ErrorExit(t) ==
    /\ status' = [status EXCEPT ![t] = "Error"]
    /\ is_testing' = FALSE
    /\ flag_writers' = flag_writers \cup {WorkerThread}
    /\ Callback(t, "Error")
    /\ pc' = [pc EXCEPT ![t] = "done"]
    /\ ThreadEnds(t)
    /\ Wrote(t, t)

\* SystemTests.stop_all_tests, called by TestsTab.stop_tests in the GUI thread
stop_all_tests ==
    /\ is_testing' = FALSE
    /\ tab' = [tab EXCEPT !.visible = FALSE]
    /\ flag_writers' = flag_writers \cup {GuiThread}
    /\ stop_during' = [t \in Tests |-> stop_during[t] \/ Running(t)]
    /\ stop_before_read' =
           [t \in Tests |-> stop_before_read[t] \/ (Running(t) /\ pc[t] # "finish")]
    /\ UNCHANGED <<pc, idx, size, status, progress, reported, stress, blocks, temp_file,
                   brightness, charging, battery, early_return, results_writers, runs,
                    toggles, moves, updateVars, otherVars>>


\* what a loop step of a worker leaves alone
LoopFrame == <<is_testing, size, status, reported, stop_during, stop_before_read,
               early_return, flag_writers, runs,  toggles, moves, updateVars, restVars,
               battery>>

\* what an error exit leaves alone
ErrorFrame == <<progress, stop_during, stop_before_read, early_return, runs,
                 toggles, moves, updateVars, otherVars, battery>>

\* The locals of the run being started are fresh, and those of the finished runs
\* are dropped with their results; the display keeps its level
DropLocals(t) ==
    /\ blocks' = IF t = "memory" \/ Dropped(t, "memory") THEN NoBlocks ELSE blocks
    /\ temp_file' = IF t = "disk" \/ Dropped(t, "disk") THEN "none" ELSE temp_file
    /\ brightness' = IF t = "brightness" \/ Dropped(t, "brightness")
                       THEN [original |-> 0, current |-> brightness.current,
                             restored |-> FALSE, changed |-> FALSE]
                       ELSE brightness
    /\ charging' = IF t = "charging" \/ Dropped(t, "charging") THEN InitCharging
                    ELSE charging

\* ------------------------------------------------------------ cpu_stress_test

cpu_stress_test(d, solo) ==
    /\ StartTest("cpu", d, "loop", solo)
    /\ stress' = stress + NumCores
    /\ DropLocals("cpu")
    /\ UNCHANGED <<battery, toggles, moves, updateVars, otherVars>>

stress_worker_ClearsFlag ==
    /\ stress > 0
    /\ stress' = stress - 1
    /\ is_testing' = FALSE
    /\ flag_writers' = flag_writers \cup {StressThread}
    /\ UNCHANGED <<pc, idx, size, status, progress, reported, blocks, temp_file,
                   brightness, charging, battery, stop_during, stop_before_read,
                   early_return, results_writers, runs, toggles, moves, updateVars, restVars>>

\* while time.time() < end_time and self.is_testing: the thread leaves its loop
\* when the flag is down or its time is up
stress_worker ==
    /\ stress > 0
    /\ \/ ~is_testing
       \/ idx["cpu"] >= size["cpu"] \/ ~Running("cpu")   \* its time is up
       \/ stress > NumCores                              \* a thread of an earlier run
    /\ stress' = stress - 1
    /\ UNCHANGED <<is_testing, pc, idx, size, status, progress, reported, blocks,
                   temp_file, brightness, charging, battery, stop_during,
                   stop_before_read, early_return, flag_writers, results_writers,
                   runs,  toggles, moves, updateVars, restVars>>

\* one pass of monitor_worker's while loop (or leaving it)
monitor_worker ==
    /\ pc["cpu"] = "loop"
    /\ IF idx["cpu"] < size["cpu"] /\ is_testing
         THEN /\ progress' = [progress EXCEPT !["cpu"] = CpuProgress(idx["cpu"], size["cpu"])]
              /\ idx' = [idx EXCEPT !["cpu"] = @ + cpu_sample_interval + cpu_sleep]
              /\ Wrote("cpu", "cpu")
              /\ pc' = pc
         ELSE /\ pc' = [pc EXCEPT !["cpu"] = "final"]
              /\ UNCHANGED <<progress, idx, results_writers>>
    /\ UNCHANGED LoopFrame
    /\ UNCHANGED <<stress, blocks, temp_file, brightness, charging>>

\* a pass of monitor_worker's while loop raises (psutil.cpu_percent, or the
\* progress callback): monitor_worker has no try/except, so the thread ends
\* where the exception left it, before 'self.is_testing = False' and the final
\* callback
monitor_worker_raises ==
    /\ pc["cpu"] = "loop"
    /\ idx["cpu"] < size["cpu"] /\ is_testing
    /\ pc' = [pc EXCEPT !["cpu"] = "done"]
    /\ ThreadEnds("cpu")
    /\ UNCHANGED <<is_testing, status, progress, reported, stress, blocks, temp_file,
                   brightness, charging, battery, stop_during, stop_before_read,
                   early_return, flag_writers, results_writers, runs, toggles, moves,
                   updateVars, restVars>>

\* ---------------------------------------------------------------- memory_test

\* the bytes of a block: block_size is scaled down to one byte
Bytes == 0..MaxByte

\* sum(block), of a bytearray
RECURSIVE sum(_)
sum(block) == IF block = <<>> THEN 0 ELSE Head(block) + sum(Tail(block))

\* checksum = sum(block) % 256; if checksum != sum(block) % 256: errors_found += 1,
\* where first and second are the block at the two reads
Mismatch(first, second) == IF sum(first) % 256 # sum(second) % 256 THEN 1 ELSE 0

memory_test(n, solo) ==
    /\ StartTest("memory", n, "alloc", solo)
    /\ DropLocals("memory")
    /\ UNCHANGED <<stress, battery, toggles, moves, updateVars, otherVars>>

\* for i in range(num_blocks): allocate one block
memory_alloc(b) ==
    /\ pc["memory"] = "alloc"
    /\ IF idx["memory"] < size["memory"] /\ is_testing
         THEN /\ blocks' = [blocks EXCEPT !.memory_blocks = Append(@, <<b>>),
                                         !.written = Append(@, <<b>>)]
              /\ progress' = [progress EXCEPT !["memory"] =
                                  HalfProgress(0, idx["memory"], size["memory"])]
              /\ idx' = [idx EXCEPT !["memory"] = @ + 1]
              /\ Wrote("memory", "memory")
              /\ pc' = pc
         ELSE /\ pc' = [pc EXCEPT !["memory"] = "verify"]
              /\ idx' = [idx EXCEPT !["memory"] = 0]
              /\ UNCHANGED <<blocks, progress, results_writers>>
    /\ UNCHANGED LoopFrame
    /\ UNCHANGED <<stress, temp_file, brightness, charging>>

\* bytearray(...) raises MemoryError: the worker's except branch
memory_alloc_error ==
    /\ pc["memory"] = "alloc"
    /\ idx["memory"] < size["memory"] /\ is_testing
    /\ ErrorExit("memory")
    /\ UNCHANGED ErrorFrame
    /\ UNCHANGED <<stress, blocks, temp_file, brightness, charging>>

\* for i, block in enumerate(memory_blocks): verify one block
memory_verify ==
    /\ pc["memory"] = "verify"
    /\ IF idx["memory"] < Len(blocks.memory_blocks) /\ is_testing
         THEN /\ blocks' = [blocks EXCEPT !.errors_found =
                                @ + Mismatch(blocks.memory_blocks[idx["memory"] + 1],
                                             blocks.memory_blocks[idx["memory"] + 1])]
              /\ progress' = [progress EXCEPT !["memory"] =
                                  HalfProgress(50, idx["memory"], Len(blocks.memory_blocks))]
              /\ idx' = [idx EXCEPT !["memory"] = @ + 1]
              /\ Wrote("memory", "memory")
              /\ pc' = pc
         ELSE /\ pc' = [pc EXCEPT !["memory"] = "final"]
              /\ UNCHANGED <<idx, progress, results_writers, blocks>>
    /\ UNCHANGED LoopFrame
    /\ UNCHANGED <<stress, temp_file, brightness, charging>>

\* the environment: a fault changes the byte of an allocated block that is
\* still as it was written and has not been verified yet
memory_corrupt ==
    /\ pc["memory"] \in {"alloc", "verify"}
    /\ \E i \in 1..Len(blocks.memory_blocks), b \in Bytes :
         /\ blocks.memory_blocks[i] = blocks.written[i]
         /\ pc["memory"] = "verify" => i > idx["memory"]
         /\ <<b>> # blocks.memory_blocks[i]
         /\ blocks' = [blocks EXCEPT !.memory_blocks[i] = <<b>>]
    /\ UNCHANGED <<is_testing, pc, idx, size, status, progress, reported, stress,
                   temp_file, brightness, charging, battery, stop_during,
                   stop_before_read, early_return, flag_writers, results_writers,
                   runs, toggles, moves, updateVars, restVars>>

\* ------------------------------------------------------------ disk_speed_test

disk_speed_test(n, solo) ==
    /\ StartTest("disk", n, "create", solo)
    /\ DropLocals("disk")
    /\ UNCHANGED <<stress, battery, toggles, moves, updateVars, otherVars>>

\* tempfile.NamedTemporaryFile(delete=False, ...)
disk_create ==
    /\ pc["disk"] = "create"
    /\ temp_file' = "exists"
    /\ pc' = [pc EXCEPT !["disk"] = "write"]
    /\ UNCHANGED LoopFrame
    /\ UNCHANGED <<idx, progress, results_writers, stress, blocks, brightness, charging>>

\* one pass of the write loop (base 0) or of the read loop (base 50)
disk_loop(at, base, next) ==
    /\ pc["disk"] = at
    /\ IF idx["disk"] < size["disk"] /\ is_testing
         THEN /\ progress' = [progress EXCEPT !["disk"] =
                                  HalfProgress(base, idx["disk"], size["disk"])]
              /\ idx' = [idx EXCEPT !["disk"] = @ + 1]
              /\ Wrote("disk", "disk")
              /\ pc' = pc
         ELSE /\ pc' = [pc EXCEPT !["disk"] = next]
              /\ idx' = [idx EXCEPT !["disk"] = 0]
              /\ UNCHANGED <<progress, results_writers>>
    /\ UNCHANGED LoopFrame
    /\ UNCHANGED <<stress, blocks, temp_file, brightness, charging>>

disk_write == disk_loop("write", 0, "read")

disk_read == disk_loop("read", 50, "cleanup")

\* f.write / f.read raises (disk full, I/O error): the worker's except branch,
\* which does not remove the temporary file
disk_io_error ==
    /\ pc["disk"] \in {"write", "read"}
    /\ idx["disk"] < size["disk"] /\ is_testing
    /\ ErrorExit("disk")
    /\ UNCHANGED ErrorFrame
    /\ UNCHANGED <<stress, blocks, temp_file, brightness, charging>>

\* os.unlink(temp_path), its failure swallowed
disk_cleanup ==
    /\ pc["disk"] = "cleanup"
    /\ \E ok \in BOOLEAN : temp_file' = IF ok THEN "deleted" ELSE temp_file
    /\ pc' = [pc EXCEPT !["disk"] = "final"]
    /\ UNCHANGED <<is_testing, size, status, reported, stop_during, stop_before_read,
                   early_return, flag_writers, runs,  toggles, moves, updateVars, restVars,
                   battery, idx, progress, results_writers, stress, blocks, brightness,
                   charging>>


\* ------------------------------------------------------------ brightness_test

OriginalLevels == {50}

brightness_test(solo) ==
    /\ StartTest("brightness", Len(test_levels), "detect", solo)
    /\ DropLocals("brightness")
    /\ UNCHANGED <<stress, battery, toggles, moves, updateVars, otherVars>>

\* reading CurrentBrightness succeeded: brightness_support = True
brightness_detect ==
    /\ pc["brightness"] = "detect"
    /\ \E b \in OriginalLevels :
         brightness' = [original |-> b, current |-> b, restored |-> FALSE,
                        changed |-> FALSE]
    /\ pc' = [pc EXCEPT !["brightness"] = "loop"]
    /\ Wrote("brightness", "brightness")
    /\ UNCHANGED LoopFrame
    /\ UNCHANGED <<idx, progress, stress, blocks, temp_file, charging>>

\* not win32, a non-zero return code or an exception while reading the level:
\* status 'Completed', progress 100, is_testing False, callback, return
brightness_unsupported ==
    /\ pc["brightness"] = "detect"
    /\ status' = [status EXCEPT !["brightness"] = "Completed"]
    /\ progress' = [progress EXCEPT !["brightness"] = 100]
    /\ is_testing' = FALSE
    /\ flag_writers' = flag_writers \cup {WorkerThread}
    /\ Callback("brightness", "Completed")
    /\ early_return' = [early_return EXCEPT !["brightness"] = TRUE]
    /\ pc' = [pc EXCEPT !["brightness"] = "done"]
    /\ ThreadEnds("brightness")
    /\ Wrote("brightness", "brightness")
    /\ UNCHANGED <<stop_during, stop_before_read, runs,
                   toggles, moves, updateVars, otherVars, battery, stress, blocks, temp_file, brightness,
                   charging>>

\* one pass of "for i, level in enumerate(test_levels)": out is "ok" (the level was
\* set), "failed" (non-zero return code) or "raised" (the command raised)
brightness_loop ==
    /\ pc["brightness"] = "loop"
    /\ IF idx["brightness"] < Len(test_levels) /\ is_testing
         THEN \E out \in {"ok", "failed", "raised"} :
                /\ brightness' =
                       IF out = "ok"
                         THEN [brightness EXCEPT !.current = test_levels[idx["brightness"] + 1],
                                                 !.changed = TRUE, !.restored = FALSE]
                         ELSE brightness
                /\ progress' = IF out = "raised" THEN progress
                               ELSE [progress EXCEPT !["brightness"] =
                                        StepProgress(idx["brightness"], total_steps)]
                /\ idx' = [idx EXCEPT !["brightness"] = @ + 1]
                /\ Wrote("brightness", "brightness")
                /\ pc' = pc
         ELSE /\ pc' = [pc EXCEPT !["brightness"] = "restore"]
              /\ UNCHANGED <<idx, progress, results_writers, brightness>>
    /\ UNCHANGED <<is_testing, size, status, reported, stop_during, stop_before_read,
                   early_return, flag_writers, runs,  toggles, moves, updateVars, restVars,
                   battery, stress, blocks, temp_file, charging>>

brightness_restore_OnlyIfTesting ==
    /\ pc["brightness"] = "restore"
    /\ \E ok \in BOOLEAN :
         brightness' = [brightness EXCEPT
                           !.current = IF ok /\ is_testing THEN brightness.original ELSE @,
                           !.restored = is_testing]
    /\ pc' = [pc EXCEPT !["brightness"] = "final"]
    /\ UNCHANGED <<is_testing, size, status, reported, stop_during, stop_before_read,
                   early_return, flag_writers, runs,  toggles, moves, updateVars, restVars,
                   battery, idx, progress, results_writers, stress, blocks, temp_file,
                   charging>>

\* "Restore original brightness": the command is issued; it sets the level unless
\* it fails
brightness_restore ==
    /\ pc["brightness"] = "restore"
    /\ \E ok \in BOOLEAN :
         brightness' = [brightness EXCEPT
                           !.current = IF ok THEN brightness.original ELSE @,
                           !.restored = TRUE]
    /\ pc' = [pc EXCEPT !["brightness"] = "final"]
    /\ UNCHANGED <<is_testing, size, status, reported, stop_during, stop_before_read,
                   early_return, flag_writers, runs,  toggles, moves, updateVars, restVars,
                   battery, idx, progress, results_writers, stress, blocks, temp_file,
                   charging>>

\* -------------------------------------------------------------- charging_test

charging_test(solo) ==
    /\ StartTest("charging", checks_total, "detect", solo)
    /\ DropLocals("charging")
    /\ UNCHANGED <<stress, battery, toggles, moves, updateVars, otherVars>>

\* psutil.sensors_battery() returned a battery: the initial state is recorded
charging_detect ==
    /\ pc["charging"] = "detect"
    /\ charging' = [charging EXCEPT
                       !.battery_support = TRUE,
                       !.initial_charging_state = battery.power_plugged,
                       !.initial_battery_level = battery.percent,
                       !.last_charging_state = battery.power_plugged,
                       !.last_battery_level = battery.percent,
                       !.prev_sample = battery.power_plugged]
    /\ pc' = [pc EXCEPT !["charging"] = "loop"]
    /\ Wrote("charging", "charging")
    /\ UNCHANGED LoopFrame
    /\ UNCHANGED <<idx, progress, stress, blocks, temp_file, brightness>>

\* psutil.sensors_battery() returned None: status 'Completed', progress 100,
\* is_testing False, callback, return
charging_no_battery ==
    /\ pc["charging"] = "detect"
    /\ status' = [status EXCEPT !["charging"] = "Completed"]
    /\ progress' = [progress EXCEPT !["charging"] = 100]
    /\ is_testing' = FALSE
    /\ flag_writers' = flag_writers \cup {WorkerThread}
    /\ Callback("charging", "Completed")
    /\ early_return' = [early_return EXCEPT !["charging"] = TRUE]
    /\ pc' = [pc EXCEPT !["charging"] = "done"]
    /\ ThreadEnds("charging")
    /\ Wrote("charging", "charging")
    /\ UNCHANGED <<stop_during, stop_before_read, runs,
                   toggles, moves, updateVars, otherVars, battery, stress, blocks, temp_file, brightness,
                   charging>>

\* psutil.sensors_battery() raised: status 'Error', is_testing False, callback
charging_detect_error ==
    /\ pc["charging"] = "detect"
    /\ ErrorExit("charging")
    /\ UNCHANGED ErrorFrame
    /\ UNCHANGED <<stress, blocks, temp_file, brightness, charging>>

\* 'plugged_in' if current_charging else 'unplugged'
EventName(current_charging) == IF current_charging THEN "plugged_in" ELSE "unplugged"

\* "Detect charging state changes": the events after a sample
DetectEvent(events, last_state, current_charging) ==
    IF current_charging # last_state
      THEN Append(events, EventName(current_charging))
      ELSE events

NextLastState_Stale(last_state, current_charging) == last_state

\* last_charging_state after a sample: assigned when an event was detected
NextLastState(last_state, current_charging) ==
    IF current_charging # last_state THEN current_charging ELSE last_state

Abs(x) == IF x < 0 THEN -x ELSE x

\* "Track battery level changes": the level changes after a sample
TrackLevel(changes, last_level, current_level, current_charging) ==
    IF Abs(current_level - last_level) >= OnePercent
      THEN Append(changes, [old_level |-> last_level, new_level |-> current_level,
                            change |-> current_level - last_level,
                            charging |-> current_charging])
      ELSE changes

NextLastLevel_Always(last_level, current_level) == current_level

\* last_battery_level after a sample
NextLastLevel(last_level, current_level) ==
    IF Abs(current_level - last_level) >= OnePercent THEN current_level ELSE last_level

\* one pass of "for check in range(checks_total)" in which the sample succeeds
charging_sample ==
    /\ pc["charging"] = "loop"
    /\ idx["charging"] < checks_total /\ is_testing
    /\ charging' = [charging EXCEPT
           !.charging_events = DetectEvent(@, charging.last_charging_state,
                                           battery.power_plugged),
           !.last_charging_state = NextLastState(@, battery.power_plugged),
           !.battery_level_changes = TrackLevel(@, charging.last_battery_level,
                                                battery.percent, battery.power_plugged),
           !.last_battery_level = NextLastLevel(@, battery.percent),
           !.current_battery_level = battery.percent,
           !.samples = @ + 1,
           !.slept = @ + check_interval,
           !.prev_sample = battery.power_plugged]
    /\ progress' = [progress EXCEPT !["charging"] = StepProgress(idx["charging"], checks_total)]
    /\ idx' = [idx EXCEPT !["charging"] = @ + 1]
    /\ Wrote("charging", "charging")
    /\ pc' = pc
    /\ UNCHANGED LoopFrame
    /\ UNCHANGED <<stress, blocks, temp_file, brightness>>

\* a pass in which sampling raises: "Error during monitoring", no sleep
charging_sample_error ==
    /\ pc["charging"] = "loop"
    /\ idx["charging"] < checks_total /\ is_testing
    /\ charging.errors < MaxFaults
    /\ charging' = [charging EXCEPT !.errors = @ + 1, !.sample_failed = TRUE]
    /\ idx' = [idx EXCEPT !["charging"] = @ + 1]
    /\ Wrote("charging", "charging")
    /\ UNCHANGED <<pc, progress, is_testing, size, status, reported, stop_during,
                   stop_before_read, early_return, flag_writers, runs,
                   toggles, moves, updateVars, restVars, battery, stress, blocks, temp_file, brightness>>

\* "Determine test success": the verdict on the charging port
PortStatus(detected) ==
    IF detected > 0 THEN "Working - charging state changes detected"
    ELSE "No changes detected - please plug/unplug charger during test"

BatteryStatus_AnyIncrease(changes) ==
    IF Len(changes) > 0
      THEN IF \E i \in 1..Len(changes) : changes[i].change > 0
             THEN "Working - battery level increased while charging"
             ELSE "Partial - state changes detected but no charging increase"
      ELSE "No battery level changes detected"

\* the verdict on the battery: charging_increases is non-empty or not
BatteryStatus(changes) ==
    IF Len(changes) > 0
      THEN IF \E i \in 1..Len(changes) : changes[i].charging /\ changes[i].change > 0
             THEN "Working - battery level increased while charging"
             ELSE "Partial - state changes detected but no charging increase"
      ELSE "No battery level changes detected"

\* "Analyze results"
Analyze(c) ==
    [c EXCEPT !.analysed = TRUE,
              !.charging_events_detected = Len(c.charging_events),
              !.battery_level_changes_detected = Len(c.battery_level_changes),
              !.charging_port_status = PortStatus(Len(c.charging_events)),
              !.battery_charging_status = BatteryStatus(c.battery_level_changes)]

\* the loop ends (range exhausted) or is left (if not self.is_testing: break),
\* and the results are analysed
charging_leave ==
    /\ pc["charging"] = "loop"
    /\ ~(idx["charging"] < checks_total /\ is_testing)
    /\ pc' = [pc EXCEPT !["charging"] = "final"]
    /\ charging' = Analyze(charging)
    /\ UNCHANGED LoopFrame
    /\ UNCHANGED <<idx, progress, results_writers, stress, blocks, temp_file, brightness>>

\* the environment: the charger is plugged in or pulled out
PlugToggle ==
    /\ toggles < MaxToggles
    /\ toggles' = toggles + 1
    /\ battery' = [battery EXCEPT !.power_plugged = ~@]
    /\ UNCHANGED <<is_testing, pc, idx, size, status, progress, reported, stress,
                   blocks, temp_file, brightness, charging, stop_during,
                   stop_before_read, early_return, flag_writers,
                   results_writers, runs,  moves, updateVars, restVars>>

\* the environment: the battery level moves by one step, less than one percent
LevelMove ==
    /\ moves < MaxMoves
    /\ moves' = moves + 1
    /\ \E l \in 0..MaxLevel :
         /\ Abs(l - battery.percent) = 1
         /\ battery' = [battery EXCEPT !.percent = l]
    /\ UNCHANGED <<is_testing, pc, idx, size, status, progress, reported, stress,
                   blocks, temp_file, brightness, charging, stop_during,
                   stop_before_read, early_return, flag_writers,
                   results_writers, runs,  toggles, updateVars, restVars>>

\* ------------------------------------------------------- the update system
\* A string is a sequence of tokens.  In a version string a token is "v", a
\* run of digits (written as its value) or "x" (any other text); two adjacent
\* digit runs are separated by a dot, so <<"v", "1", "1">> is "v1.1".

Digit(k) == ToString(k)

Digits == {Digit(k) : k \in 0..MaxSeg}

Tokens == {"v", "x"} \cup Digits

\* the tag names a release can carry
Tags == UNION {[1..n -> Tokens] : n \in 0..MaxLen}

\* version = "1.1"
version == <<Digit(1), Digit(1)>>

\* the builds a user can be running: this one, or a later one after an update
Builds == {version, <<Digit(2)>>}

\* str.lstrip(c): every leading c is removed
RECURSIVE lstrip(_, _)
lstrip(s, c) == IF s # <<>> /\ Head(s) = c THEN lstrip(Tail(s), c) ELSE s

\* packaging.version: an optional single "v", then dot-separated numbers
ReleaseSegment(s) == IF s # <<>> /\ Head(s) = "v" THEN Tail(s) ELSE s

\* pkg_version.parse(s) does not raise InvalidVersion
IsVersion(s) ==
    /\ ReleaseSegment(s) # <<>>
    /\ \A i \in 1..Len(ReleaseSegment(s)) : ReleaseSegment(s)[i] \in Digits

Value(d) == CHOOSE k \in 0..MaxSeg : Digit(k) = d

RECURSIVE StripZeros(_)
StripZeros(r) ==
    IF r # <<>> /\ r[Len(r)] = 0 THEN StripZeros(SubSeq(r, 1, Len(r) - 1)) ELSE r

\* the comparison key of a parsed version: its numbers without trailing zeros
Key(s) == StripZeros([i \in 1..Len(ReleaseSegment(s)) |-> Value(ReleaseSegment(s)[i])])

\* a < b for tuples of numbers
TupleLess(a, b) ==
    \E i \in 1..Len(b) :
        /\ \A j \in 1..(i - 1) : j <= Len(a) /\ a[j] = b[j]
        /\ i - 1 <= Len(a)
        /\ (i > Len(a) \/ a[i] < b[i])

IsNewer_OrEqual(latest, current) == ~TupleLess(Key(latest), Key(current))

\* pkg_version.parse(latest_version) > pkg_version.parse(self.current_version)
IsNewer(latest, current) == TupleLess(Key(current), Key(latest))

ReminderRelevant_Always(reminder_version, current) == TRUE

\* pkg_version.parse(reminder_data['version']) > pkg_version.parse(self.current_version)
ReminderRelevant(reminder_version, current) ==
    TupleLess(Key(current), Key(reminder_version))

\* the message of error_occurred for a lost connection, word by word (the other
\* messages are written where they are emitted)
NoInternet == <<"No", "internet", "connection">>

\* the status codes of the releases request: 200 and the three error branches
StatusCodes == {"200", "404", "403", "500"}

\* str(e) of a RequestException that is neither a ConnectionError nor a Timeout
RequestErrors == {<<"Exceeded", "30", "redirects">>, <<"Invalid", "URL">>}

\* str.lower() of a word
Lower(w) ==
    CASE w = "No" -> "no"
      [] w = "Repository" -> "repository"
      [] w = "URL" -> "url"
      [] w = "API" -> "api"
      [] w = "GitHub" -> "github"
      [] w = "GitHub:" -> "github:"
      [] w = "HTTP" -> "http"
      [] w = "Failed" -> "failed"
      [] w = "Invalid" -> "invalid"
      [] w = "Version" -> "version"
      [] w = "Unexpected" -> "unexpected"
      [] w = "Exceeded" -> "exceeded"
      [] w = "Expecting" -> "expecting"
      [] OTHER -> w

lower(s) == [i \in 1..Len(s) |-> Lower(s[i])]

\* phrase in s
Contains(s, phrase) ==
    \E i \in 0..(Len(s) - Len(phrase)) : \A j \in 1..Len(phrase) : s[i + j] = phrase[j]

StatusText_NoTimeout(error_message) ==
    IF Contains(error_message, NoInternet) THEN <<"No internet connection">>
    ELSE IF Contains(lower(error_message), <<"rate", "limit">>) THEN <<"API rate limit exceeded">>
    ELSE <<"Update check failed">>

\* the status label chosen by _on_update_error
StatusText(error_message) ==
    IF Contains(error_message, NoInternet) THEN <<"No internet connection">>
    ELSE IF Contains(lower(error_message), <<"timeout">>) THEN <<"Connection timeout">>
    ELSE IF Contains(lower(error_message), <<"rate", "limit">>) THEN <<"API rate limit exceeded">>
    ELSE <<"Update check failed">>

\* the text of the 'Update Check Failed' dialog
ErrorText(error_message) ==
    IF Contains(error_message, NoInternet)
    THEN <<"Unable to check for updates.", "Please check your internet connection and try again.">>
    ELSE IF Contains(lower(error_message), <<"timeout">>)
    THEN <<"Update check timed out.", "Please check your internet connection and try again.">>
    ELSE IF Contains(lower(error_message), <<"rate", "limit">>)
    THEN <<"GitHub API rate limit exceeded.", "Please try again in a few minutes.">>
    ELSE IF Contains(error_message, <<"Repository", "not", "found">>)
    THEN <<"Repository not found.", "The update source may have moved or be unavailable.">>
    ELSE <<"Failed to check for updates:">> \o error_message

\* ---- releases and update_info
\* the assets of a release: a Windows executable, a zip, or none (source zipball)
Assets == {"exe", "zip", "source"}

NoUrl == <<>>

\* _get_download_url: browser_download_url of the matching asset, else zipball_url
_get_download_url(release_data) ==
    CASE release_data.asset = "exe" -> <<"pc-checker", ".exe">>
      [] release_data.asset = "zip" -> <<"pc-checker", ".zip">>
      [] OTHER -> <<"zipball", "v">>

\* _get_download_size: size of the matching asset, else 0
_get_download_size(release_data) ==
    IF release_data.asset \in {"exe", "zip"} THEN 1 ELSE 0

Release(tag, asset) == [kind |-> "release", tag_name |-> tag, asset |-> asset]

\* a 200 answer whose body is not JSON
NotJson == [kind |-> "not_json", tag_name |-> <<>>, asset |-> "source"]

NoResponse == [kind |-> "none", tag_name |-> <<>>, asset |-> "source"]

\* the releases the update flow is explored with: 2 (newer) and 1.1 (not newer)
FlowReleases ==
    { Release(<<"v", Digit(2)>>, "exe"), Release(<<"v", Digit(2)>>, "zip"),
      Release(<<"v", Digit(1), Digit(1)>>, "zip") }

\* the releases the checks are explored with: those, one without a tag and
\* one whose tag is not a version
CheckReleases == FlowReleases \cup {Release(<<"v">>, "source"), Release(<<"v", "x">>, "zip")}

NoInfo == [version |-> <<>>, download_url |-> NoUrl, size |-> 0]

\* the update_info dict built by UpdateChecker.run (the fields copied
\* unchanged from the release for display are left out)
UpdateInfo(latest_version, release_data) ==
    [ version |-> latest_version,
      download_url |-> _get_download_url(release_data),
      size |-> _get_download_size(release_data) ]

\* ---- update_reminder.json
JString(s) == [t |-> "string", s |-> s, n |-> 0, m |-> <<>>]
JNumber(n) == [t |-> "number", s |-> <<>>, n |-> n, m |-> <<>>]
JNull == [t |-> "null", s |-> <<>>, n |-> 0, m |-> <<>>]
JObject(m) == [t |-> "object", s |-> <<>>, n |-> 0, m |-> m]

NoFile == JNull

\* json.dump of update_info
DumpInfo(update_info) ==
    JObject(<< <<"version", JString(update_info.version)>>,
               <<"download_url", IF update_info.download_url = NoUrl
                                 THEN JNull ELSE JString(update_info.download_url)>>,
               <<"size", JNumber(update_info.size)>> >>)

\* json.dump of reminder_data
DumpReminder(update_info) ==
    JObject(<< <<"version", JString(update_info.version)>>,
               <<"reminder_date", JString(<<"now">>)>>,
               <<"update_info", DumpInfo(update_info)>> >>)

\* obj[key] of a loaded JSON object
Member(obj, key) == obj.m[CHOOSE i \in 1..Len(obj.m) : obj.m[i][1] = key][2]

\* json.load: reminder_data['version'] and reminder_data['update_info']
LoadReminder(file) ==
    [ version |-> Member(file, "version").s,
      update_info |->
        [ version |-> Member(Member(file, "update_info"), "version").s,
          download_url |-> IF Member(Member(file, "update_info"), "download_url").t = "null"
                           THEN NoUrl
                           ELSE Member(Member(file, "update_info"), "download_url").s,
          size |-> Member(Member(file, "update_info"), "size").n ] ]

\* ---- signals, dialogs, downloads
\* sender is QObject.sender(): the download that emitted the signal, 0 for a checker
Signal(sig, info, text, current, total) ==
    [sig |-> sig, info |-> info, text |-> text, current |-> current, total |-> total,
     sender |-> 0]

CheckerSignals == {"update_available", "update_not_available", "error_occurred"}

Dialog(title, info, text) == [title |-> title, info |-> info, text |-> text]

\* the three dialogs that end an update check
CheckDialogs == {"Update Available", "No Updates", "Update Check Failed"}

NoAnswer == [title |-> "none", button |-> "none", info |-> NoInfo, text |-> <<>>]

\* file_name of _download_update
FileName(update_info) ==
    <<"pc-checker-">> \o update_info.version \o
        << IF update_info.download_url[Len(update_info.download_url)] = ".exe"
           THEN ".exe" ELSE ".zip" >>

\* os.path.join(tempfile.gettempdir(), file_name)
DownloadPath(file_name) == <<"tmp">> \o file_name

EndsWith(path, ext) == path # <<>> /\ path[Len(path)] = ext

\* ---- frames of the update system
\* what a step of the UpdateChecker thread leaves alone
CheckerFrame == <<testVars, restVars, current_version, releases, session, startup, quit,
                  show_no_update_message, checks, dialogs, status_label, timer,
                  reminder_file, downloaders, update_downloader, manual_unanswered,
                  last_answer, reminded, completed, installs, shell, failed_before, prompts, cancelled>>

\* what a step of an UpdateDownloader thread leaves alone
DownloaderFrame == <<testVars, restVars, current_version, releases, session, startup, quit,
                     show_no_update_message, update_checker, emitted, cause, checks,
                     dialogs, status_label, timer, reminder_file, update_downloader,
                     manual_unanswered, found, last_answer, reminded, installs, shell,
                     failed_before, prompts, cancelled>>

\* what a slot or a dialog answer of the UpdateManager leaves alone, beside
\* the variables its handler states
SlotFrame == <<testVars, restVars, current_version, releases, session, startup,
               show_no_update_message, update_checker, emitted, cause, checks,
               found, completed, failed_before>>

InitUpdate(releaseSets) ==
    /\ current_version = version
    /\ releases \in releaseSets
    /\ session = 1
    /\ startup = "scheduled"
    /\ quit = FALSE
    /\ show_no_update_message = FALSE
    /\ update_checker = [st |-> "none", response |-> NoResponse]
    /\ emitted = <<>>
    /\ cause = "none"
    /\ checks = 0
    /\ queue = <<>>
    /\ dialogs = <<>>
    /\ status_label = <<"Ready">>
    /\ timer = NoInfo
    /\ reminder_file = NoFile
    /\ downloaders = <<>>
    /\ update_downloader = 0
    /\ manual_unanswered = FALSE
    /\ found = {}
    /\ last_answer = NoAnswer
    /\ reminded = NoInfo
    /\ completed = {}
    /\ installs = {}
    /\ shell = {}
    /\ failed_before = FALSE
    /\ prompts = <<>>
    /\ cancelled = {}

\* ------------------------------------------------------- UpdateChecker.run

\* self.update_checker.isRunning()
CheckerRunning == update_checker.st \in {"started", "fetched", "emitted"}

ErrorSignal(message) == Signal("error_occurred", NoInfo, message, 0, 0)

\* signal.emit(...) followed by the return of run; c is the path taken
EmitAndReturn(s, c) ==
    /\ emitted' = Append(emitted, s)
    /\ queue' = Append(queue, s)
    /\ update_checker' = [update_checker EXCEPT !.st = "emitted"]
    /\ cause' = c
    /\ found' = IF s.sig = "update_available" THEN found \cup {s.info} ELSE found
    /\ UNCHANGED CheckerFrame

\* _test_internet_connection() is False: none of the four probes answered 200
run_no_connection ==
    /\ ~quit
    /\ update_checker.st = "started"
    /\ EmitAndReturn(ErrorSignal(NoInternet), "no_connection")

\* response.status_code is 404, 403 or another code that is not 200
run_http_error(code) ==
    /\ ~quit
    /\ update_checker.st = "started"
    /\ code # "200"
    /\ EmitAndReturn(
           ErrorSignal(
               IF code = "404"
               THEN <<"Repository", "not", "found", "-", "please", "check", "the",
                      "repository", "URL">>
               ELSE IF code = "403"
               THEN <<"API", "rate", "limit", "exceeded", "-", "please", "try", "again",
                      "later">>
               ELSE <<"GitHub", "API", "error:", "HTTP", code>>),
           code)

\* requests.get raises; kind is the except clause that catches the exception
run_request_exception(kind) ==
    /\ ~quit
    /\ update_checker.st = "started"
    /\ \/ kind = "ConnectionError" /\ EmitAndReturn(ErrorSignal(NoInternet), kind)
       \/ /\ kind = "Timeout"
          /\ EmitAndReturn(
                 ErrorSignal(<<"GitHub", "API", "timeout", "-", "please", "try", "again">>),
                 kind)
       \/ /\ kind = "RequestException"
          /\ \E e \in RequestErrors :
                 EmitAndReturn(
                     ErrorSignal(<<"Failed", "to", "connect", "to", "GitHub:">> \o e), kind)

\* the request is answered with status 200
run_response(r) ==
    /\ ~quit
    /\ update_checker.st = "started"
    /\ update_checker' = [st |-> "fetched", response |-> r]
    /\ UNCHANGED <<emitted, queue, cause, found>>
    /\ UNCHANGED CheckerFrame

\* response.json() raises: the outer except
run_not_json ==
    /\ ~quit
    /\ update_checker.st = "fetched"
    /\ update_checker.response.kind = "not_json"
    /\ EmitAndReturn(ErrorSignal(<<"Unexpected", "error:", "Expecting", "value">>), "not_json")

run_no_tag_NoReturn ==
    /\ ~quit
    /\ update_checker.st = "fetched"
    /\ update_checker.response.kind = "release"
    /\ lstrip(update_checker.response.tag_name, "v") = <<>>
    /\ emitted' = Append(emitted, ErrorSignal(<<"Invalid", "version", "information", "from", "GitHub">>))
    /\ queue' = Append(queue, ErrorSignal(<<"Invalid", "version", "information", "from", "GitHub">>))
    /\ UNCHANGED <<update_checker, cause, found>>
    /\ UNCHANGED CheckerFrame

\* if not latest_version: the tag is missing, empty or only "v"s
run_no_tag ==
    /\ ~quit
    /\ update_checker.st = "fetched"
    /\ update_checker.response.kind = "release"
    /\ lstrip(update_checker.response.tag_name, "v") = <<>>
    /\ EmitAndReturn(ErrorSignal(<<"Invalid", "version", "information", "from", "GitHub">>), "no_tag")

\* the comparison of the versions and the signal it leads to
run_compare ==
    /\ ~quit
    /\ update_checker.st = "fetched"
    /\ update_checker.response.kind = "release"
    /\ LET latest_version == lstrip(update_checker.response.tag_name, "v") IN
       /\ latest_version # <<>>
       /\ IF ~IsVersion(latest_version) \/ ~IsVersion(current_version)
            THEN EmitAndReturn(
                     ErrorSignal(<<"Version", "comparison", "error:", "Invalid", "version">>),
                     "compared")
            ELSE IF IsNewer(latest_version, current_version)
            THEN EmitAndReturn(
                     Signal("update_available",
                            UpdateInfo(latest_version, update_checker.response), <<>>, 0, 0),
                     "compared")
            ELSE EmitAndReturn(Signal("update_not_available", NoInfo, <<>>, 0, 0), "compared")

\* run has returned: isRunning() is False from now on
checker_finished ==
    /\ ~quit
    /\ update_checker.st = "emitted"
    /\ update_checker' = [update_checker EXCEPT !.st = "finished"]
    /\ UNCHANGED <<emitted, queue, cause, found>>
    /\ UNCHANGED CheckerFrame

\* ---------------------------------------------------- UpdateDownloader.run

\* int(response.headers.get('content-length', 0)): a zipball has no length
ContentLength(download_url) == IF Head(download_url) = "zipball" THEN 0 ELSE MaxChunks

\* for chunk in response.iter_content(...): file.write(chunk), the count grows
\* and download_progress is emitted
downloader_chunk(i) ==
    /\ ~quit
    /\ downloaders[i].st = "running"
    /\ downloaders[i].received < MaxChunks
    /\ downloaders' = [downloaders EXCEPT ![i].received = @ + 1,
                                          ![i].written = @ + 1,
                                          ![i].downloaded = @ + 1]
    /\ queue' = Append(queue, [Signal("download_progress", NoInfo, <<>>,
                                      downloaders[i].downloaded + 1,
                                      ContentLength(downloaders[i].download_url))
                                   EXCEPT !.sender = i])
    /\ UNCHANGED completed
    /\ UNCHANGED DownloaderFrame

\* file.write(chunk) raises (disk full): the chunk was received and is not in
\* the file; except Exception emits download_failed
downloader_write_fails(i) ==
    /\ ~quit
    /\ downloaders[i].st = "running"
    /\ downloaders[i].received < MaxChunks
    /\ downloaders' = [downloaders EXCEPT ![i].received = @ + 1,
                                          ![i].st = "emitted"]
    /\ queue' = Append(queue, [Signal("download_failed", NoInfo, <<"OSError">>, 0, 0)
                                   EXCEPT !.sender = i])
    /\ UNCHANGED completed
    /\ UNCHANGED DownloaderFrame

\* download_completed emitted from inside the loop, which goes on
downloader_completes_InLoop(i) ==
    /\ ~quit
    /\ downloaders[i].st = "running"
    /\ downloaders' = downloaders
    /\ queue' = Append(queue, [Signal("download_completed", NoInfo,
                                      DownloadPath(downloaders[i].file_name), 0, 0)
                                   EXCEPT !.sender = i])
    /\ completed' = completed \cup {DownloadPath(downloaders[i].file_name)}
    /\ UNCHANGED DownloaderFrame

\* self.download_completed.emit(self.download_path)
downloader_completes(i) ==
    /\ ~quit
    /\ downloaders[i].st = "running"
    /\ downloaders' = [downloaders EXCEPT ![i].st = "emitted"]
    /\ queue' = Append(queue, [Signal("download_completed", NoInfo,
                                      DownloadPath(downloaders[i].file_name), 0, 0)
                                   EXCEPT !.sender = i])
    /\ completed' = completed \cup {DownloadPath(downloaders[i].file_name)}
    /\ UNCHANGED DownloaderFrame

\* except Exception as e: self.download_failed.emit(str(e))
downloader_fails(i) ==
    /\ ~quit
    /\ downloaders[i].st = "running"
    /\ downloaders' = [downloaders EXCEPT ![i].st = "emitted"]
    /\ queue' = Append(queue, [Signal("download_failed", NoInfo, <<"HTTPError">>, 0, 0)
                                   EXCEPT !.sender = i])
    /\ UNCHANGED completed
    /\ UNCHANGED DownloaderFrame

\* run has returned
downloader_finished(i) ==
    /\ ~quit
    /\ downloaders[i].st = "emitted"
    /\ downloaders' = [downloaders EXCEPT ![i].st = "finished"]
    /\ UNCHANGED <<queue, completed>>
    /\ UNCHANGED DownloaderFrame

\* ----------------------------------------------------------- UpdateManager

check_for_updates_Always(show) ==
    /\ show_no_update_message' = show
    /\ update_checker' = [st |-> "started", response |-> NoResponse]
    /\ emitted' = <<>>
    /\ cause' = "none"
    /\ status_label' = <<"Checking for updates...">>
    /\ checks' = checks + 1
    /\ failed_before' = failed_before

\* UpdateManager.check_for_updates
check_for_updates(show) ==
    IF CheckerRunning
    THEN UNCHANGED <<show_no_update_message, update_checker, emitted, cause,
                     status_label, checks, failed_before>>
    ELSE /\ show_no_update_message' = show
         /\ update_checker' = [st |-> "started", response |-> NoResponse]
         /\ emitted' = <<>>
         /\ cause' = "none"
         /\ status_label' = <<"Checking for updates...">>
         /\ checks' = checks + 1
         /\ failed_before' =
                (failed_before \/ (emitted # <<>> /\ emitted[1].sig = "error_occurred"))

\* a progress dialog is shown: it is modal for the main window
ProgressOpen == \E i \in DOMAIN downloaders : downloaders[i].dialog_open

\* LaptopTestingApp.check_for_updates_manual: the update button is pressed
check_for_updates_manual ==
    /\ ~quit
    /\ dialogs = <<>>
    /\ ~ProgressOpen
    /\ CheckerRunning \/ checks < MaxChecks - (IF startup = "scheduled" THEN 1 ELSE 0)
    /\ check_for_updates(TRUE)
    /\ manual_unanswered' = TRUE
    /\ UNCHANGED <<testVars, restVars, current_version, releases, session, startup, quit, queue,
                   dialogs, timer, reminder_file, downloaders, update_downloader,
                   found, last_answer, reminded, completed, installs, shell, prompts, cancelled>>

\* UpdateManager.check_update_reminder
check_update_reminder ==
    IF reminder_file = NoFile
    THEN UNCHANGED <<timer, reminder_file>>
    ELSE IF ReminderRelevant(LoadReminder(reminder_file).version, current_version)
    THEN /\ timer' = LoadReminder(reminder_file).update_info
         /\ UNCHANGED reminder_file
    ELSE /\ reminder_file' = NoFile
         /\ UNCHANGED timer

\* LaptopTestingApp.check_startup_updates, 2 s after the window is built
check_startup_updates ==
    /\ ~quit
    /\ startup = "scheduled"
    /\ startup' = "done"
    /\ check_update_reminder
    /\ check_for_updates(FALSE)
    /\ UNCHANGED <<testVars, restVars, current_version, releases, session, quit, queue, dialogs,
                   downloaders, update_downloader, manual_unanswered, found,
                   last_answer, reminded, completed, installs, shell, prompts, cancelled>>

\* ---- the event loop of the GUI thread
\* the queued signal at the head of the queue reaches its slot
Deliver(sig) ==
    /\ ~quit
    /\ queue # <<>>
    /\ Head(queue).sig = sig
    /\ queue' = Tail(queue)
    /\ UNCHANGED <<timer, last_answer>>
    /\ UNCHANGED SlotFrame

\* the modal dialog d is opened over the open ones
Show(base, d) ==
    /\ dialogs' = Append(base, d)
    /\ manual_unanswered' = (manual_unanswered /\ d.title \notin CheckDialogs)

\* UpdateManager._on_update_available, up to msg.exec()
_on_update_available(base, update_info) ==
    /\ status_label' = <<"Update available: v">> \o update_info.version
    /\ Show(base, Dialog("Update Available", update_info, <<>>))
    /\ prompts' = Append(prompts, update_info.version)
    /\ UNCHANGED <<cancelled, reminder_file, reminded, downloaders, update_downloader, quit, installs, shell>>

\* UpdateManager._on_no_update
_on_no_update ==
    /\ Deliver("update_not_available")
    /\ status_label' = <<"You have the latest version">>
    /\ IF show_no_update_message
         THEN Show(dialogs, Dialog("No Updates", NoInfo, <<>>))
         ELSE UNCHANGED <<dialogs, manual_unanswered>>
    /\ UNCHANGED <<reminder_file, reminded, downloaders, update_downloader, quit, installs, shell,
                   prompts, cancelled>>

\* UpdateManager._on_update_error
_on_update_error ==
    /\ Deliver("error_occurred")
    /\ status_label' = StatusText(Head(queue).text)
    /\ IF show_no_update_message
         THEN Show(dialogs, Dialog("Update Check Failed", NoInfo, ErrorText(Head(queue).text)))
         ELSE UNCHANGED <<dialogs, manual_unanswered>>
    /\ UNCHANGED <<reminder_file, reminded, downloaders, update_downloader, quit, installs, shell,
                   prompts, cancelled>>

\* UpdateManager._download_update
_download_update(base, update_info) ==
    /\ IF update_info.download_url = NoUrl
         THEN /\ Show(base, Dialog("Download Error", NoInfo,
                                   <<"No download URL available for this update.">>))
              /\ UNCHANGED <<downloaders, update_downloader>>
         ELSE /\ Len(downloaders) < MaxDownloads
              /\ downloaders' = Append(downloaders,
                     [ st |-> "running",
                       download_url |-> update_info.download_url,
                       file_name |-> FileName(update_info),
                       received |-> 0,
                       written |-> 0,
                       downloaded |-> 0,
                       dialog_open |-> TRUE,
                       depth |-> Len(base),
                       value |-> 0 ])
              /\ update_downloader' = Len(downloaders) + 1
              /\ dialogs' = base
              /\ UNCHANGED manual_unanswered
    /\ UNCHANGED <<status_label, reminder_file, reminded, quit, installs, shell>>

\* UpdateManager._set_update_reminder
_set_update_reminder(base, update_info) ==
    /\ reminder_file' = DumpReminder(update_info)
    /\ reminded' = update_info
    /\ dialogs' = base
    /\ UNCHANGED <<status_label, manual_unanswered, downloaders, update_downloader,
                   quit, installs, shell>>

\* a dialog is closed and its handler has nothing more to do
Close(base) ==
    /\ dialogs' = base
    /\ UNCHANGED <<status_label, manual_unanswered, reminder_file, reminded,
                   downloaders, update_downloader, quit, installs, shell>>

prompt_result_SkipDownloads(base, result, update_info) ==
    IF result \in {"Yes", "Cancel"} THEN _download_update(base, update_info)
    ELSE _set_update_reminder(base, update_info)

\* UpdateManager._on_update_available, after msg.exec(): Yes is 'Download Now',
\* No is 'Remind Later', Cancel is 'Skip This Version'
prompt_result(base, result, update_info) ==
    IF result = "Yes" THEN _download_update(base, update_info)
    ELSE IF result = "No" THEN _set_update_reminder(base, update_info)
    ELSE Close(base)

\* UpdateManager._cancel_download: terminate() and wait() on the current downloader
Terminated(d) == IF d.st \in {"running", "emitted"} THEN [d EXCEPT !.st = "terminated"] ELSE d

\* self.progress_dialog.close(): closing a progress dialog emits canceled,
\* which is connected to _cancel_download
CloseProgress ==
    downloaders' = [i \in DOMAIN downloaders |->
                      IF i = update_downloader
                      THEN [Terminated(downloaders[i]) EXCEPT !.dialog_open = FALSE]
                      ELSE downloaders[i]]

\* UpdateManager._on_download_progress
_on_download_progress ==
    /\ Deliver("download_progress")
    /\ downloaders' = IF update_downloader # 0 /\ Head(queue).total > 0
                        THEN [downloaders EXCEPT ![update_downloader].value =
                                  (Head(queue).current * 100) \div Head(queue).total]
                        ELSE downloaders
    /\ UNCHANGED <<dialogs, status_label, manual_unanswered, reminder_file, reminded,
                   update_downloader, quit, installs, shell, prompts, cancelled>>

\* UpdateManager._on_download_completed, up to msg.exec()
_on_download_completed ==
    /\ Deliver("download_completed")
    /\ CloseProgress
    /\ Show(dialogs, Dialog("Download Completed", NoInfo, Head(queue).text))
    /\ UNCHANGED <<status_label, reminder_file, reminded, update_downloader, quit, installs, shell,
                   prompts, cancelled>>

\* UpdateManager._on_download_failed
_on_download_failed ==
    /\ Deliver("download_failed")
    /\ CloseProgress
    /\ Show(dialogs, Dialog("Download Failed", NoInfo, Head(queue).text))
    /\ UNCHANGED <<status_label, reminder_file, reminded, update_downloader, quit, installs, shell,
                   prompts, cancelled>>

\* extract_dir = os.path.join(tempfile.gettempdir(), "pc-checker-update")
ExtractDir == <<"tmp", "pc-checker-update">>

\* what os.startfile and the extraction can do: "open_error" is an extraction
\* that succeeds followed by an os.startfile(extract_dir) that raises
InstallOutcomes(file_path) ==
    IF EndsWith(file_path, ".exe") THEN {"started", "error"}
    ELSE {"main_file", "no_main_file", "error", "open_error"}

\* UpdateManager._install_from_zip
_install_from_zip(base, zip_path, outcome) ==
    /\ IF outcome = "error"
         THEN /\ Show(base, Dialog("Extraction Error", NoInfo, zip_path))
              /\ shell' = shell
         ELSE IF outcome = "main_file"
         THEN /\ Show(base, Dialog("Update Extracted", NoInfo, zip_path))
              /\ shell' = shell \cup {<<"extractall", zip_path>>}
         ELSE IF outcome = "open_error"
         THEN /\ Show(base, Dialog("Extraction Error", NoInfo, zip_path))
              /\ shell' = shell \cup {<<"extractall", zip_path>>}
         ELSE /\ dialogs' = base
              /\ UNCHANGED manual_unanswered
              /\ shell' = shell \cup {<<"extractall", zip_path>>, <<"startfile", ExtractDir>>}
    /\ quit' = quit

\* the '.exe' branch that quits although os.startfile raised
_install_update_QuitsAnyway(base, file_path, outcome) ==
    /\ installs' = installs \cup {file_path}
    /\ IF EndsWith(file_path, ".exe")
         THEN /\ quit' = TRUE
              /\ dialogs' = base
              /\ UNCHANGED manual_unanswered
              /\ shell' = IF outcome = "error" THEN shell
                          ELSE shell \cup {<<"startfile", file_path>>}
         ELSE _install_from_zip(base, file_path, outcome)
    /\ UNCHANGED <<status_label, reminder_file, reminded, downloaders, update_downloader>>

\* UpdateManager._install_update
_install_update(base, file_path, outcome) ==
    /\ installs' = installs \cup {file_path}
    /\ IF EndsWith(file_path, ".exe")
         THEN IF outcome = "error"
              THEN /\ Show(base, Dialog("Installation Error", NoInfo, file_path))
                   /\ quit' = quit
                   /\ shell' = shell
              ELSE /\ quit' = TRUE
                   /\ dialogs' = base
                   /\ UNCHANGED manual_unanswered
                   /\ shell' = shell \cup {<<"startfile", file_path>>}
         ELSE IF EndsWith(file_path, ".zip")
         THEN _install_from_zip(base, file_path, outcome)
         ELSE /\ Show(base, Dialog("Manual Installation", NoInfo, file_path))
              /\ quit' = quit
              /\ shell' = shell \cup {<<"startfile", <<"tmp">> >>}
    /\ UNCHANGED <<status_label, reminder_file, reminded, downloaders, update_downloader>>

\* update_available reaches its slot
on_update_available ==
    /\ Deliver("update_available")
    /\ _on_update_available(dialogs, Head(queue).info)

\* UpdateManager._show_update_reminder: the 3 s timer of check_update_reminder fires
_show_update_reminder ==
    /\ ~quit
    /\ timer # NoInfo
    /\ timer' = NoInfo
    /\ _on_update_available(dialogs, timer)
    /\ UNCHANGED <<queue, last_answer>>
    /\ UNCHANGED SlotFrame

Top == dialogs[Len(dialogs)]

Below == SubSeq(dialogs, 1, Len(dialogs) - 1)

\* the user presses a button of the topmost dialog; a progress dialog that was
\* shown after it keeps it blocked (the newest modal window takes the input)
Answer(title, button) ==
    /\ ~quit
    /\ dialogs # <<>>
    /\ Top.title = title
    /\ \A i \in DOMAIN downloaders :
           downloaders[i].dialog_open => downloaders[i].depth < Len(dialogs)
    /\ last_answer' = [title |-> title, button |-> button, info |-> Top.info, text |-> Top.text]
    /\ UNCHANGED <<queue, timer, prompts, cancelled>>
    /\ UNCHANGED SlotFrame

\* the 'Update Available' prompt is answered
answer_update_available(result) ==
    /\ Answer("Update Available", result)
    /\ prompt_result(Below, result, Top.info)

\* the 'Download Completed' dialog is answered
answer_download_completed(result, outcome) ==
    /\ Answer("Download Completed", result)
    /\ IF result = "Yes"
         THEN outcome \in InstallOutcomes(Top.text) /\ _install_update(Below, Top.text, outcome)
         ELSE outcome = "started" /\ Close(Below)

\* a dialog with nothing to decide is closed
\* the 'Update Extracted' question of _install_from_zip is answered: Yes opens
\* the folder, and an os.startfile that raises ends in 'Extraction Error'
answer_update_extracted(result, outcome) ==
    /\ Answer("Update Extracted", result)
    /\ IF result = "Yes" /\ outcome = "error"
         THEN Show(Below, Dialog("Extraction Error", NoInfo, Top.text))
         ELSE dialogs' = Below /\ UNCHANGED manual_unanswered
    /\ shell' = IF result = "Yes" /\ outcome = "started"
                THEN shell \cup {<<"startfile", ExtractDir>>} ELSE shell
    /\ result = "No" => outcome = "started"
    /\ UNCHANGED <<status_label, reminder_file, reminded, downloaders, update_downloader,
                   quit, installs>>

dismiss ==
    /\ dialogs # <<>>
    /\ Top.title \notin {"Update Available", "Download Completed", "Update Extracted"}
    /\ Answer(Top.title, "Ok")
    /\ Close(Below)

\* the Cancel button of the progress dialog of download i is pressed: no
\* message box and no progress dialog was shown after it
cancel_download(i) ==
    /\ ~quit
    /\ downloaders[i].dialog_open
    /\ Len(dialogs) = downloaders[i].depth
    /\ \A j \in DOMAIN downloaders : j > i => ~downloaders[j].dialog_open
    /\ cancelled' = cancelled \cup {i}
    /\ downloaders' = [j \in DOMAIN downloaders |->
                         [ (IF j = update_downloader THEN Terminated(downloaders[j])
                            ELSE downloaders[j])
                           EXCEPT !.dialog_open = IF j = i THEN FALSE ELSE @ ]]
    /\ UNCHANGED <<queue, timer, last_answer, dialogs, status_label, manual_unanswered,
                   reminder_file, reminded, update_downloader, quit, installs, shell, prompts>>
    /\ UNCHANGED SlotFrame

\* the application is closed and started again, as this build or a later one;
\* update_reminder.json stays where it is
Restart ==
    /\ session < MaxSessions
    /\ session' = session + 1
    /\ \E b \in Builds :
         /\ ~TupleLess(Key(b), Key(current_version))
         /\ current_version' = b
    /\ startup' = "scheduled"
    /\ quit' = FALSE
    /\ show_no_update_message' = FALSE
    /\ update_checker' = [st |-> "none", response |-> NoResponse]
    /\ emitted' = <<>>
    /\ cause' = "none"
    /\ checks' = 0
    /\ queue' = <<>>
    /\ dialogs' = <<>>
    /\ status_label' = <<"Ready">>
    /\ timer' = NoInfo
    /\ downloaders' = <<>>
    /\ update_downloader' = 0
    /\ manual_unanswered' = FALSE
    /\ last_answer' = NoAnswer
    /\ completed' = {}
    /\ installs' = {}
    /\ shell' = {}
    /\ failed_before' = FALSE
    /\ prompts' = <<>>
    /\ cancelled' = {}
    /\ UNCHANGED <<testVars, restVars, releases, reminder_file, reminded, found>>

DownloaderStep ==
    \E i \in 1..MaxDownloads :
        /\ i <= Len(downloaders)
        /\ \/ downloaders[i].received = 0 /\ downloader_chunk(i)
           \/ downloader_completes(i)
           \/ downloader_fails(i)
           \/ downloader_finished(i)
           \/ cancel_download(i)

CheckerStep ==
    \/ run_no_connection
    \/ \E code \in StatusCodes : run_http_error(code)
    \/ \E kind \in {"ConnectionError", "Timeout", "RequestException"} :
           run_request_exception(kind)
    \/ \E r \in releases \cup {NotJson} : run_response(r)
    \/ run_not_json
    \/ run_no_tag
    \/ run_compare
    \/ checker_finished

AnswerStep ==
    \/ \E result \in {"Yes", "No", "Cancel"} : answer_update_available(result)
    \/ \E result \in {"Yes", "No"},
          outcome \in {"started", "main_file", "no_main_file", "error", "open_error"} :
           answer_download_completed(result, outcome)
    \/ \E result \in {"Yes", "No"}, outcome \in {"started", "error"} :
           answer_update_extracted(result, outcome)
    \/ dismiss

\* ------------------------------------------------------------------- main
\* The launches of the application: each process runs main once, and all of
\* them share laptop_testing_program.lock in the temporary directory.

PIDs == 1..MaxProcs

\* the contents of the lock file
NoLock == [kind |-> "none", pid |-> 0]

\* f.write(str(os.getpid()))
LockOf(p) == [kind |-> "pid", pid |-> p]

\* a lock file whose text int() does not parse
NotAPid == [kind |-> "text", pid |-> 0]

\* a lock file left by a process that was killed before this behaviour began
StaleLock == LockOf(0)

InitLaunch(files) ==
    /\ lock_file \in files
    /\ proc = [p \in PIDs |-> "off"]
    /\ pid = [p \in PIDs |-> 0]
    /\ exit_code = [p \in PIDs |-> -1]

\* the process q exists (tasklist lists it / os.kill(pid, 0) succeeds)
Alive(q) == q \in PIDs /\ proc[q] \notin {"off", "exited", "killed"}

\* what a step of main leaves alone
LaunchFrame == <<testVars, updateVars, captureVars, keyboardVars, tab>>

\* the user starts the program: main runs up to os.path.exists
main_start(p) ==
    /\ proc[p] = "off"
    /\ proc' = [proc EXCEPT ![p] = "exists"]
    /\ UNCHANGED <<lock_file, pid, exit_code>>
    /\ UNCHANGED LaunchFrame

\* if os.path.exists(lock_file)
main_exists(p) ==
    /\ proc[p] = "exists"
    /\ proc' = [proc EXCEPT ![p] = IF lock_file = NoLock THEN "create" ELSE "read"]
    /\ UNCHANGED <<lock_file, pid, exit_code>>
    /\ UNCHANGED LaunchFrame

\* pid = int(f.read().strip()); FileNotFoundError and ValueError lead to
\* "Removing invalid lock file"
main_read(p) ==
    /\ proc[p] = "read"
    /\ IF lock_file.kind = "pid"
         THEN /\ pid' = [pid EXCEPT ![p] = lock_file.pid]
              /\ proc' = [proc EXCEPT ![p] = "probe"]
         ELSE /\ proc' = [proc EXCEPT ![p] = "remove"]
              /\ UNCHANGED pid
    /\ UNCHANGED <<lock_file, exit_code>>
    /\ UNCHANGED LaunchFrame

\* the process named by the lock file is looked up: "Already Running" and
\* sys.exit(1), or "Removing stale lock file"
main_probe(p) ==
    /\ proc[p] = "probe"
    /\ IF Alive(pid[p])
         THEN /\ proc' = [proc EXCEPT ![p] = "exited"]
              /\ exit_code' = [exit_code EXCEPT ![p] = 1]
         ELSE /\ proc' = [proc EXCEPT ![p] = "remove"]
              /\ UNCHANGED exit_code
    /\ UNCHANGED <<lock_file, pid>>
    /\ UNCHANGED LaunchFrame

\* os.remove(lock_file) of a stale or invalid lock file; when the file is gone
\* already the FileNotFoundError is caught and main goes on
main_remove(p) ==
    /\ proc[p] = "remove"
    /\ lock_file' = NoLock
    /\ proc' = [proc EXCEPT ![p] = "create"]
    /\ UNCHANGED <<pid, exit_code>>
    /\ UNCHANGED LaunchFrame

\* "Create lock file", then window = LaptopTestingApp(); window.show()
main_create(p) ==
    /\ proc[p] = "create"
    /\ lock_file' = LockOf(p)
    /\ proc' = [proc EXCEPT ![p] = "window"]
    /\ UNCHANGED <<pid, exit_code>>
    /\ UNCHANGED LaunchFrame

\* app.exec() returns: "Clean up lock file", sys.exit(result)
main_quit(p) ==
    /\ proc[p] = "window"
    /\ lock_file' = NoLock
    /\ proc' = [proc EXCEPT ![p] = "exited"]
    /\ exit_code' = [exit_code EXCEPT ![p] = 0]
    /\ UNCHANGED pid
    /\ UNCHANGED LaunchFrame

\* the process is killed while its window is open: the lock file stays
main_killed(p) ==
    /\ proc[p] = "window"
    /\ proc' = [proc EXCEPT ![p] = "killed"]
    /\ UNCHANGED <<lock_file, pid, exit_code>>
    /\ UNCHANGED LaunchFrame

\* ------------------------------------------------ CameraWorker, AudioWorker
\* The two capture threads have the same shape: run opens the device, sets
\* running to True and reads until running is False; stop sets running to
\* False and waits for the thread.

Workers == {"camera", "audio"}

\* no worker object yet: self.camera_worker = None / self.audio_worker = None
NoWorker == [st |-> "none", running |-> FALSE, device |-> "closed", frames |-> 0]

InitCapture ==
    /\ worker = [w \in Workers |-> NoWorker]
    /\ stop_call = [w \in Workers |-> "none"]

\* QThread.isRunning(): from start() until run has returned
IsRunning(w) == worker[w].st \in {"opening", "opened", "loop"}

\* the GUI thread is inside a stop() of one of the windows
GuiBlocked == \E w \in Workers : stop_call[w] = "waiting"

\* what a step of a capture worker or of its window leaves alone
CaptureFrame == <<testVars, updateVars, launchVars, keyboardVars, tab>>

\* CameraTestWindow.start_camera / MicrophoneTestWindow.start_audio: a new
\* worker is created and started unless one is running
start_worker(w) ==
    /\ ~GuiBlocked
    /\ ~IsRunning(w)
    /\ worker' = [worker EXCEPT ![w] = [NoWorker EXCEPT !.st = "opening",
                                                          !.device = worker[w].device]]
    /\ stop_call' = [stop_call EXCEPT ![w] = "none"]
    /\ UNCHANGED CaptureFrame

\* run: cv2.VideoCapture(0) is opened / self.audio.open(...) returns a stream
run_open(w) ==
    /\ worker[w].st = "opening"
    /\ worker' = [worker EXCEPT ![w].st = "opened", ![w].device = "open"]
    /\ UNCHANGED stop_call
    /\ UNCHANGED CaptureFrame

\* run: the camera does not open within the timeout / audio.open raises; run
\* returns through finally with nothing to release
run_open_fails(w) ==
    /\ worker[w].st = "opening"
    /\ worker' = [worker EXCEPT ![w].st = "finished"]
    /\ UNCHANGED stop_call
    /\ UNCHANGED CaptureFrame

\* run: self.running = True, after the device was opened
run_set_running(w) ==
    /\ worker[w].st = "opened"
    /\ worker' = [worker EXCEPT ![w].st = "loop", ![w].running = TRUE]
    /\ UNCHANGED stop_call
    /\ UNCHANGED CaptureFrame

\* run: one pass of 'while self.running' that reads a frame / a chunk
run_capture(w) ==
    /\ worker[w].st = "loop"
    /\ worker[w].running
    /\ worker[w].frames < MaxFrames
    /\ worker' = [worker EXCEPT ![w].frames = @ + 1]
    /\ UNCHANGED stop_call
    /\ UNCHANGED CaptureFrame

\* run: the loop is left, because running is False or because the read failed
\* (break); finally releases the camera / cleanup closes the stream
run_leaves(w, read_failed) ==
    /\ worker[w].st = "loop"
    /\ ~worker[w].running \/ read_failed
    /\ worker' = [worker EXCEPT ![w].st = "finished", ![w].device = "closed"]
    /\ UNCHANGED stop_call
    /\ UNCHANGED CaptureFrame

\* stop_camera / stop_audio (the Stop button or closeEvent) with a running
\* worker: stop() sets running to False and begins to wait
stop(w) ==
    /\ ~GuiBlocked
    /\ IsRunning(w)
    /\ worker' = [worker EXCEPT ![w].running = FALSE]
    /\ stop_call' = [stop_call EXCEPT ![w] = "waiting"]
    /\ UNCHANGED CaptureFrame

\* self.wait() returns: the thread has finished
stop_returns(w) ==
    /\ stop_call[w] = "waiting"
    /\ ~IsRunning(w)
    /\ stop_call' = [stop_call EXCEPT ![w] = "returned"]
    /\ UNCHANGED worker
    /\ UNCHANGED CaptureFrame

\* AudioWorker.stop: self.wait(3000) returns False for a thread that is still
\* reading, and self.terminate() ends the thread where it is, without cleanup
stop_terminates ==
    /\ stop_call["audio"] = "waiting"
    /\ worker["audio"].st = "loop" /\ worker["audio"].running
    /\ worker' = [worker EXCEPT !["audio"].st = "terminated"]
    /\ stop_call' = [stop_call EXCEPT !["audio"] = "returned"]
    /\ UNCHANGED CaptureFrame

\* ------------------------------------------------------------ specifications

Sizes == 1..MaxSize

CpuStep == monitor_worker \/ stress_worker \/ FinalRead("cpu") \/ WorkerFinish("cpu")

MemoryStep ==
    \/ \E b \in Bytes : memory_alloc(b)
    \/ memory_alloc_error
    \/ memory_verify
    \/ FinalRead("memory")
    \/ WorkerFinish("memory")

DiskStep ==
    \/ disk_create
    \/ disk_write
    \/ disk_read
    \/ disk_io_error
    \/ disk_cleanup
    \/ FinalRead("disk")
    \/ WorkerFinish("disk")

BrightnessStep ==
    \/ brightness_detect
    \/ brightness_unsupported
    \/ brightness_loop
    \/ brightness_restore
    \/ FinalRead("brightness")
    \/ WorkerFinish("brightness")

ChargingStep ==
    \/ charging_detect
    \/ charging_no_battery
    \/ charging_detect_error
    \/ charging_sample
    \/ charging_sample_error
    \/ charging_leave
    \/ FinalRead("charging")
    \/ WorkerFinish("charging")

\* every step of every worker thread
WorkerStep == CpuStep \/ MemoryStep \/ DiskStep \/ BrightnessStep \/ ChargingStep

\* The GUI leaves every test button enabled, so tests may overlap. Every worker
\* uses is_testing the same way; two pairs of overlapping tests are explored:
\* the memory test with the charging monitor, and the cpu test (with its stress
\* threads) with the memory test.
StartOverlap ==
    \/ \E n \in Sizes : memory_test(n, FALSE)
    \/ charging_test(FALSE)

StartThreads ==
    \/ \E d \in Sizes : cpu_stress_test(d, FALSE)
    \/ \E n \in Sizes : memory_test(n, FALSE)

\* the user runs the tests one at a time
StartSolo ==
    \/ \E d \in Sizes : cpu_stress_test(d, TRUE)
    \/ \E n \in Sizes : memory_test(n, TRUE)
    \/ \E n \in Sizes : disk_speed_test(n, TRUE)
    \/ brightness_test(TRUE)
    \/ charging_test(TRUE)

\* the battery as the tests other than the charging monitor find it
SteadyBattery == [power_plugged |-> FALSE, percent |-> 1]

Batteries == [power_plugged : BOOLEAN, percent : {SteadyBattery.percent}]


\* the releases whose tags are compared: every tag, with a zip asset
VersionReleases == {Release(tag, "zip") : tag \in Tags}

\* --------------------------------------------------- KeyboardTest.run_test

\* a KeyboardTest before run_test; reported is what the callback was given
InitKeyboard ==
    keyboard = [pc |-> "idle", is_testing |-> FALSE, status |-> "None", progress |-> 0,
                browser_opened |-> FALSE, i |-> 0, reported |-> <<>>, run |-> 0]

KeyboardFrame == <<testVars, updateVars, launchVars, captureVars, tab>>

\* if callback: callback(results)
KeyboardCallback(k) == [k EXCEPT !.reported = Append(@, [status |-> k.status,
                                                         progress |-> k.progress])]

\* SystemTests.keyboard_test: a new KeyboardTest, results, and the worker thread
\* (the run before it has ended)
run_test ==
    /\ keyboard.pc \in {"idle", "done"}
    /\ keyboard.run < MaxRuns
    /\ keyboard' = [pc |-> "write", is_testing |-> TRUE, status |-> "Running", progress |-> 0,
                    browser_opened |-> FALSE, i |-> 0, reported |-> <<>>,
                    run |-> keyboard.run + 1]
    /\ UNCHANGED KeyboardFrame

\* the page is written to the temporary directory; progress 25 and a callback
keyboard_write_html ==
    /\ keyboard.pc = "write"
    /\ keyboard' = KeyboardCallback([keyboard EXCEPT !.progress = 25, !.pc = "open"])
    /\ UNCHANGED KeyboardFrame

\* open() or f.write() raises: the outer except sets 'Failed'
keyboard_write_fails ==
    /\ keyboard.pc = "write"
    /\ keyboard' = [keyboard EXCEPT !.status = "Failed", !.pc = "finally"]
    /\ UNCHANGED KeyboardFrame

\* webbrowser.open(html_file_path); progress 50 and a callback
keyboard_open_browser ==
    /\ keyboard.pc = "open"
    /\ keyboard' = KeyboardCallback([keyboard EXCEPT !.browser_opened = TRUE,
                                                      !.progress = 50, !.pc = "loop"])
    /\ UNCHANGED KeyboardFrame

\* webbrowser.open raises: the inner except sets 'Failed'
keyboard_open_fails ==
    /\ keyboard.pc = "open"
    /\ keyboard' = [keyboard EXCEPT !.status = "Failed", !.pc = "finally"]
    /\ UNCHANGED KeyboardFrame

\* for i in range(5): sleep, progress 50 + (i + 1) * 10 and a callback
keyboard_tick ==
    /\ keyboard.pc = "loop"
    /\ keyboard.i < 5
    /\ keyboard' = KeyboardCallback([keyboard EXCEPT !.progress = 50 + (keyboard.i + 1) * 10,
                                                      !.i = @ + 1])
    /\ UNCHANGED KeyboardFrame

\* after the loop: status 'Completed', progress 100 and a callback
keyboard_completes ==
    /\ keyboard.pc = "loop"
    /\ keyboard.i = 5
    /\ keyboard' = KeyboardCallback([keyboard EXCEPT !.status = "Completed",
                                                      !.progress = 100, !.pc = "finally"])
    /\ UNCHANGED KeyboardFrame

\* finally: self.is_testing = False; if callback: callback(results)
keyboard_finally ==
    /\ keyboard.pc = "finally"
    /\ keyboard' = KeyboardCallback([keyboard EXCEPT !.is_testing = FALSE, !.pc = "done"])
    /\ UNCHANGED KeyboardFrame

KeyboardStep ==
    \/ keyboard_write_html
    \/ keyboard_write_fails
    \/ keyboard_open_browser
    \/ keyboard_open_fails
    \/ keyboard_tick
    \/ keyboard_completes
    \/ keyboard_finally

\* the parts a specification does not explore stay as they start
InitRest == InitLaunch({NoLock}) /\ InitCapture /\ InitKeyboard /\ tab = NoTab

Init == InitTests({SteadyBattery}) /\ InitUpdate({FlowReleases}) /\ InitRest

\* the latest release is 2 all along, with an executable or with a zip, after
\* the release 1.1 that is running
InitFlow ==
    /\ InitTests({SteadyBattery})
    /\ InitUpdate({ {r, Release(<<"v", Digit(1), Digit(1)>>, "zip")} :
                        r \in {Release(<<"v", Digit(2)>>, "exe"),
                               Release(<<"v", Digit(2)>>, "zip")} })
    /\ InitRest

\* the program is launched with no lock file, a stale one or an unparsable one
InitMain ==
    /\ InitTests({SteadyBattery})
    /\ InitUpdate({FlowReleases})
    /\ InitLaunch({NoLock, StaleLock, NotAPid})
    /\ InitCapture
    /\ InitKeyboard
    /\ tab = NoTab

InitAnyBattery == InitTests(Batteries) /\ InitUpdate({FlowReleases}) /\ InitRest

\* any battery level, off the charger
InitLevels ==
    /\ InitTests([power_plugged : {FALSE}, percent : 0..MaxLevel])
    /\ InitUpdate({FlowReleases})
    /\ InitRest

InitCheck == InitTests({SteadyBattery}) /\ InitUpdate({CheckReleases}) /\ InitRest

\* the API answers with one release, whatever its tag
InitVersions ==
    InitTests({SteadyBattery}) /\ InitUpdate({{r} : r \in VersionReleases}) /\ InitRest

NextOverlap == StartOverlap \/ stop_all_tests \/ MemoryStep \/ ChargingStep

\* the contents of the blocks do not matter to the threads: every byte is 0
NextThreads ==
    \/ StartThreads
    \/ stop_all_tests
    \/ CpuStep
    \/ memory_alloc(0)
    \/ memory_alloc_error
    \/ memory_verify
    \/ FinalRead("memory")
    \/ WorkerFinish("memory")

NextSolo == StartSolo \/ stop_all_tests \/ WorkerStep

NextCharging == charging_test(TRUE) \/ stop_all_tests \/ ChargingStep \/ PlugToggle

\* the charging test alone, with the battery level moving
NextLevels == charging_test(TRUE) \/ stop_all_tests \/ ChargingStep \/ LevelMove

\* one run of the charging test, the charger and the battery level changing
\* while it monitors
NextVerdicts ==
    \/ runs = 0 /\ charging_test(TRUE)
    \/ ChargingStep
    \/ pc["charging"] = "loop" /\ PlugToggle
    \/ pc["charging"] = "loop" /\ LevelMove

\* the memory test alone, with faults in the allocated memory
NextMemory ==
    \/ \E n \in Sizes : memory_test(n, TRUE)
    \/ stop_all_tests
    \/ MemoryStep
    \/ memory_corrupt

NextVersions == check_for_updates_manual \/ CheckerStep

\* the checks alone: every answer of the network, no download and no restart
NextCheck ==
    \/ check_for_updates_manual
    \/ check_startup_updates
    \/ CheckerStep
    \/ on_update_available
    \/ _on_no_update
    \/ _on_update_error
    \/ \E result \in {"No", "Cancel"} : answer_update_available(result)
    \/ dismiss

\* the flow from the startup check to the installation, with the network
\* answering and the application restarted
NextUpdate ==
    \/ check_startup_updates
    \/ \E r \in releases : run_response(r)
    \/ run_compare
    \/ checker_finished
    \/ on_update_available
    \/ _on_no_update
    \/ _on_download_progress
    \/ _on_download_completed
    \/ _on_download_failed
    \/ _show_update_reminder
    \/ AnswerStep
    \/ DownloaderStep
    \/ Restart

\* tests run one at a time, with psutil and the callback raising
NextFaults ==
    \/ StartSolo
    \/ stop_all_tests
    \/ WorkerStep
    \/ monitor_worker_raises
    \/ \E t \in Tests : final_callback_raises(t)

\* the launches of the program, at any time and in any interleaving
NextMain ==
    \E p \in PIDs :
        \/ main_start(p)
        \/ main_exists(p)
        \/ main_read(p)
        \/ main_probe(p)
        \/ main_remove(p)
        \/ main_create(p)
        \/ main_quit(p)
        \/ main_killed(p)

\* the camera and microphone windows: start, stop and the worker threads
NextCapture ==
    \/ \E w \in Workers :
           \/ start_worker(w)
           \/ run_open(w)
           \/ run_open_fails(w)
           \/ run_set_running(w)
           \/ run_capture(w)
           \/ \E read_failed \in BOOLEAN : run_leaves(w, read_failed)
           \/ stop(w)
           \/ stop_returns(w)
    \/ stop_terminates

\* the memory and charging tests started at any time, as the GUI allows
SpecOverlap == Init /\ [][NextOverlap]_vars

\* the cpu and memory tests started at any time
SpecThreads == Init /\ [][NextThreads]_vars

\* tests run one at a time
SpecSolo == Init /\ [][NextSolo]_vars

\* the charging test alone, with the charger and the battery level changing
SpecCharging == InitAnyBattery /\ [][NextCharging]_vars

\* the charging test alone, with the battery draining and charging
SpecLevels == InitLevels /\ [][NextLevels]_vars

\* one charging test run to its end, with plugging and level changes
SpecVerdicts == InitLevels /\ [][NextVerdicts]_vars

\* the memory test alone, with faults in the allocated memory
SpecMemory == Init /\ [][NextMemory]_vars

\* update checks, started at startup and by the user, with every answer of the network
SpecCheck == InitCheck /\ [][NextCheck]_vars

\* the update flow: startup check, reminder, prompt, download, install, restart
SpecUpdate == InitFlow /\ [][NextUpdate]_vars

\* one release with any tag, and the checks the user makes of it
\* one startup check, the prompt answered 'Download Now', and the download
\* with all its chunks
NextDownload ==
    \/ check_startup_updates
    \/ \E r \in releases : run_response(r)
    \/ run_compare
    \/ checker_finished
    \/ on_update_available
    \/ answer_update_available("Yes")
    \/ \E i \in DOMAIN downloaders : downloader_chunk(i)
    \/ \E i \in DOMAIN downloaders : downloader_write_fails(i)
    \/ \E i \in DOMAIN downloaders : downloader_completes(i)
    \/ \E i \in DOMAIN downloaders : downloader_fails(i)
    \/ \E i \in DOMAIN downloaders : downloader_finished(i)
    \/ \E i \in DOMAIN downloaders : cancel_download(i)
    \/ _on_download_progress
    \/ _on_download_completed
    \/ _on_download_failed

SpecDownload == InitFlow /\ [][NextDownload]_vars

\* ---- TestsTab
\* a callback(results) of the worker's loop, with a status that is neither
\* 'Completed' nor 'Error', at a time the throttle of test_callback lets it pass
progress_callback(t) ==
    /\ tab.open
    /\ Running(t)
    /\ pc[t] \notin {"final", "finish"}
    /\ idx[t] > 0
    /\ Len(tab.ui) < MaxQueued
    /\ tab' = test_callback(tab, "Running", TRUE)
    /\ UNCHANGED <<testVars, updateVars, otherVars>>

\* TestsTab._update_test_ui: a queued update reaches the GUI thread.  Every
\* results dict has a 'progress' key, so the bar is made visible; only
\* 'Completed' and 'Error' hide it again
_update_test_ui ==
    /\ tab.ui # <<>>
    /\ tab' = [tab EXCEPT !.ui = Tail(@),
                          !.visible = Head(tab.ui) \notin {"Completed", "Error"}]
    /\ UNCHANGED <<testVars, updateVars, otherVars>>

\* the Tests tab runs the memory test: run_memory_test, stop_tests, the worker
\* and the updates it sends to the GUI thread
InitTabbed ==
    /\ InitTests({SteadyBattery})
    /\ InitUpdate({FlowReleases})
    /\ InitLaunch({NoLock})
    /\ InitCapture
    /\ InitKeyboard
    /\ tab = InitTab

NextTab ==
    \/ \E n \in Sizes : memory_test(n, TRUE)
    \/ stop_all_tests
    \/ MemoryStep
    \/ progress_callback("memory")
    \/ _update_test_ui

SpecTab == InitTabbed /\ [][NextTab]_vars

SpecVersions == InitVersions /\ [][NextVersions]_vars

\* tests run one at a time; exceptions in the workers and in the callback
SpecFaults == Init /\ [][NextFaults]_vars

\* every test run one at a time, the keyboard test beside them
NextCallbacks == NextSolo \/ run_test \/ KeyboardStep

SpecCallbacks == Init /\ [][NextCallbacks]_vars

\* the tests one at a time, the keyboard test among them: a KeyboardTest shares
\* no state with the SystemTests workers, so their steps are not interleaved
NextProgress ==
    \/ /\ keyboard.pc \in {"idle", "done"}
       /\ \/ \E n \in Sizes : memory_test(n, TRUE)
          \/ \E n \in Sizes : disk_speed_test(n, TRUE)
          \/ brightness_test(TRUE)
          \/ charging_test(TRUE)
          \/ stop_all_tests
          \/ MemoryStep
          \/ DiskStep
          \/ BrightnessStep
          \/ ChargingStep
    \/ (\A t \in Tests : ~Running(t)) /\ run_test
    \/ KeyboardStep

SpecProgress == Init /\ [][NextProgress]_vars

\* launches of the program sharing the lock file
SpecMain == InitMain /\ [][NextMain]_vars

\* the capture workers of the camera and microphone test windows
SpecCapture == Init /\ [][NextCapture]_vars

TypeOK ==
    /\ is_testing \in BOOLEAN
    /\ \A t \in Tests : progress[t] \in 0..100

\* ------------------------------------------------------------------ claims

\* C1: with a battery present, every sample succeeding and stop_all_tests never
\* called, the charging worker takes exactly checks_total (30) samples, sleeping
\* check_interval after each, and ends with progress 100 and status 'Completed';
\* it never takes more than 30 samples.
C1_ThirtySamples ==
    /\ charging.samples <= checks_total
    /\ (/\ pc["charging"] = "done"
        /\ charging.battery_support
        /\ ~charging.sample_failed
        /\ ~stop_during["charging"])
       => /\ charging.samples = checks_total
          /\ charging.slept = monitor_duration
          /\ progress["charging"] = 100
          /\ reported["charging"] = <<"Completed">>

\* a charging run that was not stopped ran to its end
C1_Witness ==
    /\ pc["charging"] = "done"
    /\ charging.battery_support /\ ~charging.sample_failed /\ ~stop_during["charging"]
    /\ charging.samples = checks_total

Alternate(events) == \A i \in 1..(Len(events) - 1) : events[i] # events[i + 1]

\* C2 (state part): consecutive charging events alternate, and the first one
\* differs from the initial state
C2_Alternate ==
    /\ Alternate(charging.charging_events)
    /\ charging.charging_events # <<>>
         => charging.charging_events[1] # EventName(charging.initial_charging_state)

\* C2 (step part): a sample whose plugged state differs from the previous
\* sample's (the initial state for the first) appends exactly one event, named
\* after the sampled state; any other step of a run leaves the events alone
C2_Step ==
    IF charging'.samples = charging.samples + 1
      THEN charging'.charging_events =
             IF battery.power_plugged # charging.prev_sample
               THEN Append(charging.charging_events,
                           IF battery.power_plugged THEN "plugged_in" ELSE "unplugged")
               ELSE charging.charging_events
      ELSE pc'["charging"] # "detect" => charging'.charging_events = charging.charging_events

\* C2: charging_events holds one event per change between successive samples
C2_Events == []C2_Alternate /\ [][C2_Step]_vars

\* a plug and unplug between two samples left no event, and a later change did
C2_Witness ==
    /\ pc["charging"] = "done"
    /\ toggles = MaxToggles
    /\ charging.samples = checks_total
    /\ Len(charging.charging_events) < toggles

\* C3 as stated, for the runs that entered their loop and met no error: a run
\* during which stop_all_tests was called reports 'Stopped', any other 'Completed'
C3_Original ==
    \A t \in Tests :
      (pc[t] = "done" /\ status[t] # "Error" /\ ~early_return[t])
        => reported[t] = <<IF stop_during[t] THEN "Stopped" ELSE "Completed">>

\* C3 amended: the run reports 'Stopped' exactly when stop_all_tests was called
\* before the worker's last read of is_testing; a run never stopped reports
\* 'Completed' or 'Error'; exactly one terminal status is reported
C3_StoppedIffReadAfterStop ==
    \A t \in Tests :
      pc[t] = "done" =>
        /\ Len(reported[t]) = 1
        /\ (status[t] # "Error" /\ ~early_return[t])
             => reported[t] = <<IF stop_before_read[t] THEN "Stopped" ELSE "Completed">>
        /\ ~stop_during[t] => reported[t][1] \in {"Completed", "Error"}

\* a stopped run reported 'Stopped', and (in another test) a stop that came after
\* the last read left 'Completed'
C3_Witness ==
    \E t \in Tests :
      /\ pc[t] = "done" /\ stop_before_read[t] /\ reported[t] = <<"Stopped">>

C3_RaceWitness ==
    \E t \in Tests :
      /\ pc[t] = "done" /\ stop_during[t] /\ ~stop_before_read[t]
      /\ ~early_return[t] /\ reported[t] = <<"Completed">>

LiveWorkers == {t \in Tests : Running(t)}

\* C4 as stated: one background thread at most runs next to the GUI thread
C4_Original == Cardinality(LiveWorkers) + stress <= 1

\* C4 amended: a run's results dict is written only by the run's own worker
\* thread, and is_testing only by the GUI thread and by worker threads, never by
\* a stress thread
C4_Writers ==
    /\ \A t \in Tests : results_writers[t] \subseteq {t}
    /\ flag_writers \subseteq {GuiThread, WorkerThread}

\* the memory worker has written is_testing at its end while the cpu monitor and
\* its stress threads run
C4_Witness ==
    /\ Running("cpu") /\ stress = NumCores
    /\ pc["memory"] = "done"
    /\ flag_writers = {GuiThread, WorkerThread}
    /\ results_writers["cpu"] = {"cpu"} /\ results_writers["memory"] = {"memory"}

C6_Prompts ==
    \A i \in 1..Len(dialogs) :
        dialogs[i].title = "Update Available" =>
            /\ dialogs[i].info \in found
            /\ TupleLess(Key(current_version), Key(dialogs[i].info.version))

C6_Step ==
    /\ (session' = session /\ Len(downloaders') > Len(downloaders)) =>
           /\ dialogs # <<>>
           /\ Top.title = "Update Available"
           /\ last_answer'.title = "Update Available"
           /\ last_answer'.button = "Yes"
           /\ Top.info \in found
           /\ downloaders'[Len(downloaders')].download_url = Top.info.download_url
    /\ (session' = session /\ installs' # installs) =>
           /\ dialogs # <<>>
           /\ Top.title = "Download Completed"
           /\ last_answer'.title = "Download Completed"
           /\ last_answer'.button = "Yes"
           /\ installs' = installs \cup {Top.text}
           /\ Top.text \in completed
           /\ \E i \in DOMAIN downloaders :
                  /\ DownloadPath(downloaders[i].file_name) = Top.text
                  /\ downloaders[i].st \in {"emitted", "finished", "terminated"}

C6_Linear == []C6_Prompts /\ [][C6_Step]_vars

\* after a restart, the update of the stored reminder was downloaded and its
\* installation started
C6_Witness ==
    /\ session = 2
    /\ installs # {}
    /\ found = {reminded}
    /\ update_checker.st = "started"

\* C7: every run of UpdateChecker emits exactly one of update_available,
\* update_not_available and error_occurred, whatever path it takes.
C7_ExactlyOneSignal ==
    /\ Len(emitted) <= 1
    /\ update_checker.st \in {"started", "fetched"} => emitted = <<>>
    /\ update_checker.st \in {"emitted", "finished"} =>
           /\ Len(emitted) = 1
           /\ emitted[1].sig \in CheckerSignals
    /\ Len(queue) = checks - (IF update_checker.st \in {"started", "fetched"} THEN 1 ELSE 0)

\* the run whose tag cannot be parsed has emitted its one signal
C7_Witness ==
    /\ update_checker.st = "finished"
    /\ cause = "compared"
    /\ ~IsVersion(lstrip(update_checker.response.tag_name, "v"))
    /\ Len(emitted) = 1
    /\ emitted[1].sig = "error_occurred"

\* C8: every manual check ends with one of the dialogs 'Update Available',
\* 'No Updates', 'Update Check Failed': once no check is running and no signal
\* of a check is waiting, no manual request is left without its dialog.
C8_ManualEndsWithDialog ==
    (/\ ~quit
     /\ ~CheckerRunning
     /\ \A i \in 1..Len(queue) : queue[i].sig \notin CheckerSignals)
        => ~manual_unanswered

StartsWith(s, prefix) == Len(s) >= Len(prefix) /\ SubSeq(s, 1, Len(prefix)) = prefix

\* the label the claim gives for an error message
C9_Label(message) ==
    IF message = <<"No", "internet", "connection">> THEN <<"No internet connection">>
    ELSE IF \E i \in 1..Len(message) : message[i] = "timeout" THEN <<"Connection timeout">>
    ELSE IF StartsWith(message, <<"API", "rate", "limit", "exceeded">>)
    THEN <<"API rate limit exceeded">>
    ELSE <<"Update check failed">>

\* C9: a failed check emits error_occurred with the message of its cause, the
\* status label is set to the text that matches the message, and a check that
\* follows a failed one gives the result of its own answer.
C9_Messages ==
    update_checker.st \in {"emitted", "finished"} =>
        /\ cause \in {"no_connection", "ConnectionError"} =>
               emitted = <<ErrorSignal(<<"No", "internet", "connection">>)>>
        /\ cause = "Timeout" =>
               /\ emitted[1].sig = "error_occurred"
               /\ \E i \in 1..Len(emitted[1].text) : emitted[1].text[i] = "timeout"
        /\ cause = "404" =>
               /\ emitted[1].sig = "error_occurred"
               /\ StartsWith(emitted[1].text, <<"Repository", "not", "found">>)
        /\ cause = "403" =>
               /\ emitted[1].sig = "error_occurred"
               /\ StartsWith(emitted[1].text, <<"API", "rate", "limit", "exceeded">>)
        /\ cause = "500" =>
               emitted = <<ErrorSignal(<<"GitHub", "API", "error:", "HTTP", "500">>)>>
        /\ (/\ failed_before
            /\ cause = "compared"
            /\ IsVersion(lstrip(update_checker.response.tag_name, "v"))) =>
               emitted[1].sig =
                   IF TupleLess(Key(current_version),
                                Key(lstrip(update_checker.response.tag_name, "v")))
                   THEN "update_available" ELSE "update_not_available"

C9_Step ==
    (/\ queue # <<>>
     /\ queue' = Tail(queue)
     /\ Head(queue).sig = "error_occurred")
        => status_label' = C9_Label(Head(queue).text)

C9_TimeoutWitness ==
    /\ cause = "Timeout"
    /\ queue = <<>>
    /\ status_label = <<"Connection timeout">>

\* C10: the reminder file holds the update_info of the last 'Remind Later', it
\* survives a restart, and at startup check_update_reminder schedules the prompt
\* with that update_info while its version is greater than the running one, and
\* otherwise deletes the file and schedules no prompt.
C10_File ==
    reminder_file # NoFile =>
        /\ reminded # NoInfo
        /\ LoadReminder(reminder_file) = [version |-> reminded.version, update_info |-> reminded]

C10_Step ==
    /\ (/\ session' = session
        /\ dialogs # <<>>
        /\ Top.title = "Update Available"
        /\ Len(dialogs') < Len(dialogs)
        /\ last_answer'.button = "No")
           => /\ reminder_file' # NoFile
              /\ LoadReminder(reminder_file').update_info = Top.info
    /\ session' # session => reminder_file' = reminder_file
    /\ (startup = "scheduled" /\ startup' = "done") =>
           IF reminder_file = NoFile
           THEN reminder_file' = NoFile /\ timer' = NoInfo
           ELSE IF TupleLess(Key(current_version), Key(reminded.version))
           THEN reminder_file' = reminder_file /\ timer' = reminded
           ELSE reminder_file' = NoFile /\ timer' = NoInfo
    /\ (session' = session /\ timer # NoInfo /\ timer' = NoInfo) =>
           dialogs' = Append(dialogs, Dialog("Update Available", timer, <<>>))

C10_OutdatedWitness ==
    /\ session = 2
    /\ startup = "done"
    /\ reminded # NoInfo
    /\ reminder_file = NoFile
    /\ timer = NoInfo
    /\ dialogs = <<>>

\* C11: every test run sets is_testing to False on every path by which its
\* worker ends, so that with the tests run one at a time is_testing is False
\* whenever no worker thread is running (a caller polling 'while
\* tests.is_testing' after the worker has ended leaves its loop)
C11_FlagDownWhenIdle == (\A t \in Tests : ~Running(t)) => ~is_testing

\* C12: at no time do two processes both hold the main window open
C12_OneWindow == Cardinality({p \in PIDs : proc[p] = "window"}) <= 1

\* C13: stopping a capture worker never hangs: while stop() waits for the
\* thread the capture loop is not running on with running True, and when stop()
\* has returned the thread has finished and the device is released
C13_StopCompletes ==
    \A w \in Workers :
        /\ stop_call[w] = "waiting" => ~(worker[w].st = "loop" /\ worker[w].running)
        /\ stop_call[w] = "returned" =>
               worker[w].st = "finished" /\ worker[w].device = "closed"

\* C14: overlapping tests do not interfere: a run during which stop_all_tests
\* was not called does not end with status 'Stopped'
C14_StoppedOnlyByStop ==
    \A t \in Tests :
        (pc[t] = "done" /\ ~stop_during[t]) =>
            \A i \in 1..Len(reported[t]) : reported[t][i] # "Stopped"

\* C15 (step): while an UpdateChecker is running, no step starts another one:
\* the number of checks started, show_no_update_message and the thread object
\* stay as they are, and the status label is not set back to 'Checking for
\* updates...'
C15_Step ==
    CheckerRunning =>
        /\ checks' = checks
        /\ show_no_update_message' = show_no_update_message
        /\ update_checker'.st = "started" => update_checker' = update_checker
        /\ status_label' = <<"Checking for updates...">> => status_label' = status_label

\* C15: at most one UpdateChecker thread runs at any time; check_for_updates
\* called while a check is running starts no thread and changes nothing
C15_OneChecker == [][C15_Step]_vars

\* the update button was pressed while the silent startup check was running,
\* and the manager is as the startup check left it
C15_Witness ==
    /\ CheckerRunning
    /\ manual_unanswered
    /\ checks = 1
    /\ ~show_no_update_message
    /\ status_label = <<"Checking for updates...">>

\* C16: at most one UpdateDownloader thread is running and at most one download
\* progress dialog is open at any time
C16_OneDownload ==
    /\ Cardinality({i \in DOMAIN downloaders :
                        downloaders[i].st \in {"running", "emitted"}}) <= 1
    /\ Cardinality({i \in DOMAIN downloaders : downloaders[i].dialog_open}) <= 1

\* C17: during one application startup the user is prompted at most once about
\* the same available version
C17_PromptedOnce ==
    \A i, j \in DOMAIN prompts : prompts[i] = prompts[j] => i = j

\* _on_download_completed runs in this step: the queued download_completed
\* signal is taken and the install prompt opens
CompletedHandlerRuns ==
    /\ queue # <<>>
    /\ Head(queue).sig = "download_completed"
    /\ queue' = Tail(queue)
    /\ Len(dialogs') = Len(dialogs) + 1
    /\ dialogs'[Len(dialogs')].title = "Download Completed"

C18_Step == CompletedHandlerRuns => Head(queue).sender \notin cancelled

\* C18: after the user cancels a download in the progress dialog, no
\* download_completed handler runs for that download and no install prompt opens
C18_CancelledNeverOffered == [][C18_Step]_vars

TerminalStatus == Terminal \cup {"Failed"}

\* the statuses given to the callback have no terminal status before the last
\* one, and a run that has ended gave a terminal status last
TerminalOnce(statuses, ended) ==
    /\ \A i \in 1..Len(statuses) : statuses[i] \in TerminalStatus => i = Len(statuses)
    /\ ended => statuses # <<>> /\ statuses[Len(statuses)] \in TerminalStatus

\* C19: every test run gives the callback a terminal status exactly once, and
\* no callback of that run follows it
C19_TerminalOnce ==
    /\ \A t \in Tests : TerminalOnce(reported[t], pc[t] = "done")
    /\ TerminalOnce([i \in 1..Len(keyboard.reported) |-> keyboard.reported[i].status],
                    keyboard.pc = "done")

RECURSIVE SumChanges(_)
SumChanges(changes) ==
    IF changes = <<>> THEN 0 ELSE Head(changes).change + SumChanges(Tail(changes))

\* the level of the last entry, the initial level when there is none
LastRecorded ==
    IF charging.battery_level_changes = <<>> THEN charging.initial_battery_level
    ELSE charging.battery_level_changes[Len(charging.battery_level_changes)].new_level

C20_Chain ==
    LET changes == charging.battery_level_changes IN
    /\ \A i \in 1..Len(changes) :
           /\ changes[i].old_level = IF i = 1 THEN charging.initial_battery_level
                                      ELSE changes[i - 1].new_level
           /\ changes[i].change = changes[i].new_level - changes[i].old_level
           /\ Abs(changes[i].change) >= OnePercent
    /\ SumChanges(changes) = LastRecorded - charging.initial_battery_level
    /\ pc["charging"] \notin {"idle", "detect"} => charging.last_battery_level = LastRecorded

\* a sample is taken in this step and the level differs from the last
\* recorded one by less than one percent
SmallSample ==
    /\ charging'.samples = charging.samples + 1
    /\ Abs(battery.percent - LastRecorded) < OnePercent

C20_Step ==
    SmallSample =>
        /\ charging'.battery_level_changes = charging.battery_level_changes
        /\ charging'.last_battery_level = charging.last_battery_level

\* C20: battery_level_changes is a chain from initial_battery_level, every
\* entry has change = new_level - old_level of at least one percent, the changes
\* sum to last recorded level - initial level, and a sample less than one percent
\* from the last recorded level adds no entry and leaves the baseline
C20_LevelChain == []C20_Chain /\ [][C20_Step]_vars

\* the test has ended with two recorded changes, and its last sample was
\* within one percent of the second and was not recorded
C20_Witness ==
    /\ pc["charging"] = "done"
    /\ Len(charging.battery_level_changes) = 2
    /\ charging.current_battery_level # charging.last_battery_level
    /\ reported["charging"] = <<"Completed">>

ProgressTests == {"memory", "disk", "brightness", "charging"}

\* within a run the progress in results never goes down
C22_Step ==
    /\ runs' = runs => \A t \in ProgressTests : progress'[t] >= progress[t]
    /\ keyboard'.run = keyboard.run => keyboard'.progress >= keyboard.progress

C22_Range ==
    /\ \A t \in ProgressTests :
           /\ progress[t] \in 0..100
           /\ (pc[t] = "done" /\ reported[t] # <<>>
                 /\ reported[t][Len(reported[t])] \in {"Completed", "Stopped"})
                  => progress[t] = 100
    /\ \A i \in 1..Len(keyboard.reported) :
           /\ keyboard.reported[i].progress \in 0..100
           /\ i > 1 => keyboard.reported[i].progress >= keyboard.reported[i - 1].progress
           /\ keyboard.reported[i].status \in {"Completed", "Stopped"}
                  => keyboard.reported[i].progress = 100

\* C22: for the memory, disk, brightness, charging and keyboard tests the
\* progress given to successive callbacks of one run never decreases, lies in
\* 0..100, and is 100 in the final callback of a run that ends 'Completed' or
\* 'Stopped', also when the run was stopped early
C22_Progress == []C22_Range /\ [][C22_Step]_vars

\* a disk test stopped while it was writing has reported 'Stopped' with
\* progress 100, and a keyboard test has completed
C22_Witness ==
    /\ pc["disk"] = "done"
    /\ stop_during["disk"]
    /\ reported["disk"] = <<"Stopped">>
    /\ progress["disk"] = 100
    /\ keyboard.pc = "done"
    /\ keyboard.status = "Completed"

\* C23: once the original brightness was read, the worker issues the command
\* restoring it after the last brightness change and before it reports its
\* terminal status, on every path that changed the brightness
C23_Restored ==
    (brightness.changed /\ (pc["brightness"] = "done" \/ reported["brightness"] # <<>>))
        => brightness.restored

\* a cycle cut short by stop_all_tests changed the brightness, and the restore
\* command was issued before 'Stopped' was reported
C23_Witness ==
    /\ pc["brightness"] = "done"
    /\ reported["brightness"] = <<"Stopped">>
    /\ stop_during["brightness"]
    /\ brightness.changed
    /\ brightness.restored

\* C24: the temporary file of disk_speed_test no longer exists once the worker
\* has reported its terminal status, whatever that status is
C24_NoFileLeft ==
    reported["disk"] # <<>> => temp_file # "exists"

\* the verified blocks whose checksum is not the checksum of what was written
ChangedBlocks ==
    {i \in 1..idx["memory"] :
        sum(blocks.memory_blocks[i]) % 256 # sum(blocks.written[i]) % 256}

\* C25: at the end of a memory_test run errors_found is the number of verified
\* blocks whose contents at verification differ in checksum from the contents
\* written at allocation
C25_ErrorsCounted ==
    pc["memory"] = "final" => blocks.errors_found = Cardinality(ChangedBlocks)

\* the download i emits a signal in this step
Emits(i) ==
    /\ Len(queue') = Len(queue) + 1
    /\ queue'[Len(queue')].sender = i

\* one step of a download, as its signals show it
C26_Step ==
    \A i \in DOMAIN downloaders \cap DOMAIN downloaders' :
        LET d == downloaders[i]
            e == downloaders'[i]
            s == queue'[Len(queue')]
        IN  /\ e.downloaded >= d.downloaded
            /\ e.st = "running" => d.st = "running"
            /\ e.st = "finished" => d.st \in {"emitted", "finished"}
            /\ (d.st = "running" /\ e.st \in {"emitted", "finished"}) => Emits(i)
            /\ Emits(i) =>
                  /\ d.st = "running"
                  /\ \/ /\ s.sig = "download_progress"
                        /\ e.st = "running"
                        /\ e.downloaded > d.downloaded
                        /\ s.current = e.downloaded
                     \/ /\ s.sig = "download_completed"
                        /\ e.st = "emitted"
                        /\ e.written = e.received
                     \/ /\ s.sig = "download_failed"
                        /\ e.st = "emitted"

\* C26: a download that is not terminated emits download_completed or
\* download_failed once, as its last signal; each download_progress carries a
\* byte count larger than the one before; download_completed is emitted only
\* when every chunk received is in the file
C26_OneOutcome == [][C26_Step]_vars

\* a download wrote two chunks, emitted two progress signals and then
\* download_completed, which is still queued behind the second progress signal
C26_Witness ==
    \E i \in DOMAIN downloaders :
        /\ downloaders[i].st = "emitted"
        /\ downloaders[i].downloaded = 2
        /\ downloaders[i].written = downloaders[i].received
        /\ Len(queue) >= 2
        /\ queue[Len(queue)].sig = "download_completed"
        /\ queue[Len(queue)].sender = i
        /\ queue[Len(queue) - 1].sig = "download_progress"
        /\ queue[Len(queue) - 1].sender = i
        /\ queue[Len(queue) - 1].current = 2

\* 'Install Now' is pressed in a 'Download Completed' dialog: _install_update
\* runs on the path the dialog carries
InstallStep ==
    /\ session' = session
    /\ dialogs # <<>>
    /\ Top.title = "Download Completed"
    /\ last_answer'.title = "Download Completed"
    /\ last_answer'.button = "Yes"
    /\ dialogs' # dialogs
    /\ Len(dialogs') <= Len(dialogs)

\* the 'Update Extracted' question is answered: _install_from_zip goes on
ExtractedStep ==
    /\ session' = session
    /\ dialogs # <<>>
    /\ Top.title = "Update Extracted"
    /\ last_answer'.title = "Update Extracted"
    /\ dialogs' # dialogs
    /\ Len(dialogs') <= Len(dialogs)

\* the step ends with the error dialog of the given title in place of the
\* dialog that was answered
ErrorShown(title) == dialogs' = Append(Below, Dialog(title, NoInfo, Top.text))

\* the file of a download is named after the ending of its URL
C27_Names ==
    \A i \in DOMAIN downloaders :
        LET d == downloaders[i]
        IN  /\ EndsWith(d.file_name, ".exe") <=> EndsWith(d.download_url, ".exe")
            /\ ~EndsWith(d.download_url, ".exe") => EndsWith(d.file_name, ".zip")

\* what an installation does, by the ending of the path
C27_Step ==
    /\ InstallStep =>
          /\ EndsWith(Top.text, ".exe") =>
                \/ /\ shell' = shell \cup {<<"startfile", Top.text>>}
                   /\ quit'
                   /\ dialogs' = Below
                \/ /\ shell' = shell
                   /\ ~quit'
                   /\ ErrorShown("Installation Error")
          /\ ~EndsWith(Top.text, ".exe") =>
                /\ EndsWith(Top.text, ".zip")
                /\ ~quit'
                /\ \/ /\ shell' = shell \cup {<<"extractall", Top.text>>,
                                                <<"startfile", ExtractDir>>}
                      /\ dialogs' = Below
                   \/ /\ shell' = shell \cup {<<"extractall", Top.text>>}
                      /\ dialogs' = Append(Below, Dialog("Update Extracted", NoInfo, Top.text))
                   \/ /\ shell' \subseteq shell \cup {<<"extractall", Top.text>>}
                      /\ ErrorShown("Extraction Error")
    /\ ExtractedStep =>
          /\ ~quit'
          /\ \/ /\ last_answer'.button = "Yes"
                /\ shell' = shell \cup {<<"startfile", ExtractDir>>}
                /\ dialogs' = Below
             \/ /\ last_answer'.button = "Yes"
                /\ shell' = shell
                /\ ErrorShown("Extraction Error")
             \/ /\ last_answer'.button = "No"
                /\ shell' = shell
                /\ dialogs' = Below
    /\ (session' = session /\ ~InstallStep /\ ~ExtractedStep) =>
          /\ shell' = shell
          /\ quit' = quit

\* C27: a download is saved as .exe exactly when its URL ends with '.exe' and
\* as .zip otherwise; installing an .exe starts it and quits; installing a .zip
\* extracts it, never starts anything but the folder and never quits, and opens
\* the folder unless a main file was found and the user declines the question;
\* a failure ends in an error dialog with the application running
C27_Dispatch == []C27_Names /\ [][C27_Step]_vars

\* a .zip was extracted, a main file was found, the user declined to open the
\* folder: nothing was started and the application runs
C27_Witness ==
    /\ last_answer.title = "Update Extracted"
    /\ last_answer.button = "No"
    /\ <<"extractall", last_answer.text>> \in shell
    /\ <<"startfile", ExtractDir>> \notin shell
    /\ EndsWith(last_answer.text, ".zip")
    /\ ~quit

\* C27 as stated: an installation from a .zip that ends without an error
\* dialog has opened the folder
C27_FolderOpened ==
    [][(ExtractedStep /\ ~ErrorShown("Extraction Error"))
          => <<"startfile", ExtractDir>> \in shell']_vars

\* the last answer was 'Skip This Version' (the Cancel button of the prompt):
\* the prompt shown in this step is for another version
C28_Step ==
    (/\ last_answer.title = "Update Available"
     /\ last_answer.button = "Cancel"
     /\ Len(prompts') > Len(prompts))
        => prompts'[Len(prompts')] # last_answer.info.version

\* C28: once the prompt for a version was answered 'Skip This Version', no later
\* check or reminder prompts for that version
C28_SkipHonoured == [][C28_Step]_vars

\* C29: once a test run has reported its terminal status, no worker is running
\* and every queued update has reached the GUI thread, the progress bar of the
\* Tests tab is hidden
C29_Hidden ==
    (/\ tab.open
     /\ \E t \in Tests : reported[t] # <<>>
     /\ \A t \in Tests : ~Running(t)
     /\ tab.ui = <<>>)
        => ~tab.visible

====
